---------------------------- MODULE Spec2Model ----------------------------
(***************************************************************************)
(* A model of LLpatch, the generator of Linux kernel livepatch modules:    *)
(* the align stage (blank-line padding of the original and patched C       *)
(* files), the thin-archive symbol index, the fixup stage (renaming of     *)
(* undefined symbols, creation of KLP relocation sections) and the         *)
(* function pass of the diff stage.                                        *)
(*                                                                         *)
(* Strings are sequences of one-character strings, so that find, substr,   *)
(* split and the number conversions are computed as the code computes      *)
(* them.  The NUL byte of a string table is the character NUL.             *)
(*                                                                         *)
(* A size_t is represented by the signed reading of its bit pattern: a     *)
(* negative integer v stands for 2^64 + v.  ULt is the unsigned order.     *)
(***************************************************************************)
EXTENDS Integers, Sequences, FiniteSets, TLC

VARIABLES
    \* ---- align (src/align_command.cc) ----
    al_pc,              \* position of AlignCommand::Run
    diffed_file,        \* AlignCommand::diffed_file_
    patch_file,         \* the lines of the patch file
    original_c,         \* the lines of <original.c>
    patched_c,          \* the lines of <patched.c>
    original,           \* Run: hunks of the original side, relative offsets
    patched,            \* Run: hunks of the patched side, relative offsets
    context,            \* Run: context count of every hunk
    original_out,       \* the lines written to <original.c><suffix>
    patched_out,        \* the lines written to <patched.c><suffix>
    al_script,          \* the edit that relates original_c and patched_c
    original_again,     \* the lines a second run writes, from original_out
    patched_again,      \* the lines a second run writes, from patched_out
    \* ---- thin archive (src/thin_archive.cc) ----
    ta_pc,              \* position of the use of a ThinArchive
    nm_file,            \* the lines of the output of nm -f posix
    unique_symbols_,    \* ThinArchive::unique_symbols_
    duplicated_symbols_, \* ThinArchive::duplicated_symbols_
    ta_error,           \* the error code the constructor threw, or "NO_ERROR"
    q_symbol,           \* QuerySymbol: symbol
    q_filename,         \* QuerySymbol: filename
    q_ret,              \* QuerySymbol: the value returned
    \* ---- diff, the function pass (src/diff_command.cc) ----
    df_pc,              \* position of DiffCommand::Run
    original_ll,        \* the IR file of DiffCommand::original_filename_
    patched_ll,         \* the IR file of DiffCommand::patched_filename_
    base_dir_,          \* DiffCommand::base_dir_
    PatchedModule,      \* Run: PatchedModule, NullModule before it is loaded
    klp_func_set,       \* DistillDiffFunctions: klp_func_set
    new_func_set,       \* DistillDiffFunctions: new_func_set
    spc_func_set,       \* DistillDiffFunctions: spc_func_set
    output_ir,          \* the file <source>__klp_diff.ll, NullModule when not written
    exit_code,          \* the value main returns
    \* ---- fixup, rename mode (src/fixup_command.cc) ----
    rn_pc,              \* position of FixupCommand::RenameKlpSymbols
    elf_in,             \* the ELF file before the run: [symtab, strtab]
    elf_file,           \* the ELF file on disk
    elf_again,          \* the ELF file after a second run of rename mode
    symtab,             \* libelf's image of the symbol table
    strtab,             \* libelf's image of the string section of the symbols
    mod_file,           \* the kernel module of -m, or NoFile
    thin_archive,       \* the lines of the nm output of -t, or NoFile
    mod_symbol_set,     \* RenameKlpSymbols: mod_symbol_set
    mod_name,           \* RenameKlpSymbols: mod_name
    tar,                \* RenameKlpSymbols: tar, the index or NullPtr
    sym_name_buf,       \* RenameKlpSymbols: sym_name_buf
    sym_cursor_,        \* ElfSymbol::sym_cursor_
    rn_error,           \* the error code returned or thrown, or "NO_ERROR"
    \* ---- gen (src/gen_command.cc); the ELF file, mod_file, thin_archive,
    \* ---- mod_name, sym_name_buf and sym_cursor_ are those above ----
    gn_pc,              \* position of GenCommand::Run
    unopenable,         \* the files that std::fstream cannot open
    klp_func_names,     \* Run: klp_func_names
    livepatch_c,        \* the file ODIR/livepatch.c
    livepatch_lds,      \* the file ODIR/livepatch.lds
    makefile,           \* the file ODIR/Makefile
    gn_error,           \* the error code returned or thrown, or "NO_ERROR"
    \* ---- fixup, create-KLP-rela mode (src/fixup_command.cc) ----
    kr_pc,              \* position of FixupCommand::CreateKlpRela
    sections,           \* libelf's image of the section headers and rela data
    shstrtab,           \* libelf's image of the section-name string section
    scn_,               \* ElfRela::scn_, a section index, 0 for nullptr
    rela_cursor_,       \* ElfRela::rela_cursor_
    rela_entry_map,     \* CreateKlpRela: rela_entry_map
    klp_rela_entry_map, \* CreateKlpRela: klp_rela_entry_map
    symtab_map,         \* CreateKlpRela: symtab_map
    kr_error,           \* the error code returned or thrown, or "NO_ERROR"
    \* ---- main (src/main.cc, src/command.cc) ----
    mn_pc,              \* position of main
    mn_argv,            \* argv: the executable's name and the words after it
    mn_command,         \* main: command, the kind of the object Create made
    mn_ec,              \* the error code returned or thrown, [how, value]
    mn_out,             \* the lines written to standard output by UsageCommand
    mn_ret              \* the value main returns, or "none"

alignVars == <<al_pc, diffed_file, patch_file, original_c, patched_c, original,
               patched, context, original_out, patched_out, al_script,
               original_again, patched_again>>

thinVars == <<ta_pc, nm_file, unique_symbols_, duplicated_symbols_, ta_error,
              q_symbol, q_filename, q_ret>>

renameVars == <<rn_pc, elf_in, elf_file, elf_again, symtab, strtab, mod_file, thin_archive,
                mod_symbol_set, mod_name, tar, sym_name_buf, sym_cursor_,
                rn_error>>

relaVars == <<kr_pc, sections, shstrtab, scn_, rela_cursor_, rela_entry_map,
              klp_rela_entry_map, symtab_map, kr_error>>

diffVars == <<df_pc, original_ll, patched_ll, base_dir_, PatchedModule, klp_func_set,
              new_func_set, spc_func_set, output_ir, exit_code>>

genVars == <<gn_pc, unopenable, klp_func_names, livepatch_c, livepatch_lds, makefile,
             gn_error>>

mainVars == <<mn_pc, mn_argv, mn_command, mn_ec, mn_out, mn_ret>>

vars == <<alignVars, thinVars, renameVars, relaVars, diffVars, genVars, mainVars>>

\* what the actions of one stage leave alone
alignRest == <<thinVars, renameVars, relaVars, diffVars, genVars, mainVars>>
thinRest == <<alignVars, renameVars, relaVars, diffVars, genVars, mainVars>>
renameRest == <<alignVars, thinVars, relaVars, diffVars, genVars, mainVars>>
relaRest == <<alignVars, thinVars, diffVars, genVars, mainVars, rn_pc, elf_again, mod_file, thin_archive,
              mod_symbol_set, mod_name, tar, sym_name_buf, sym_cursor_, rn_error>>
diffRest == <<alignVars, thinVars, renameVars, relaVars, genVars, mainVars>>
mainRest == <<alignVars, thinVars, renameVars, relaVars, diffVars, genVars>>
genRest == <<alignVars, thinVars, relaVars, diffVars, mainVars, rn_pc, elf_again, mod_symbol_set,
            rn_error>>

-----------------------------------------------------------------------------
(* Strings *)

NUL == "NUL"

Digits == <<"0", "1", "2", "3", "4", "5", "6", "7", "8", "9">>

Min(a, b) == IF a < b THEN a ELSE b
Max(a, b) == IF a < b THEN b ELSE a

\* std::string::npos, StringRef::npos
npos == -1

\* s.substr(pos): the characters of s from 0-based position pos on
SubStrFrom(s, pos) == SubSeq(s, pos + 1, Len(s))

\* s.substr(pos, n): at most n characters of s from 0-based position pos;
\* n is a size_t, so a negative n (npos, or a wrapped difference) is "to the end"
SubStr(s, pos, n) ==
    IF n < 0 THEN SubStrFrom(s, pos)
    ELSE SubSeq(s, pos + 1, Min(Len(s), pos + n))

\* s.find(t, from): the first 0-based position >= from where t occurs, or npos
IsAt(s, t, pos) ==
    /\ pos + Len(t) <= Len(s)
    /\ \A k \in 1..Len(t) : s[pos + k] = t[k]

FindFrom(s, t, from) ==
    IF \E p \in from..(Len(s) - Len(t)) : IsAt(s, t, p)
    THEN CHOOSE p \in from..(Len(s) - Len(t)) :
            /\ IsAt(s, t, p)
            /\ \A q \in from..(p - 1) : ~IsAt(s, t, q)
    ELSE npos

Find(s, t) == FindFrom(s, t, 0)

\* s.rfind(t): the last 0-based position where t occurs, or npos
RFind(s, t) ==
    IF \E p \in 0..(Len(s) - Len(t)) : IsAt(s, t, p)
    THEN CHOOSE p \in 0..(Len(s) - Len(t)) :
            /\ IsAt(s, t, p)
            /\ \A q \in (p + 1)..(Len(s) - Len(t)) : ~IsAt(s, t, q)
    ELSE npos

StartsWith(s, t) == IsAt(s, t, 0)

\* llvm::StringRef::split(sep): around the first occurrence of sep; (s, "")
\* when sep does not occur
Split(s, sep) ==
    LET p == Find(s, sep)
    IN  IF p = npos THEN <<s, <<>>>>
        ELSE <<SubSeq(s, 1, p), SubStrFrom(s, p + Len(sep))>>

\* llvm::StringRef::rsplit(sep): around the last occurrence of sep
RSplit(s, sep) ==
    LET p == RFind(s, sep)
    IN  IF p = npos THEN <<s, <<>>>>
        ELSE <<SubSeq(s, 1, p), SubStrFrom(s, p + Len(sep))>>

\* llvm::StringRef::ltrim(chars): without the leading characters that are in chars
RECURSIVE LTrim(_, _)
LTrim(s, chars) ==
    IF s # <<>> /\ s[1] \in chars THEN LTrim(Tail(s), chars) ELSE s

\* the decimal digits of a non-negative int
RECURSIVE to_string_nat(_)
to_string_nat(n) ==
    IF n < 10 THEN <<Digits[n + 1]>>
    ELSE to_string_nat(n \div 10) \o <<Digits[(n % 10) + 1]>>

\* std::to_string(int)
to_string(n) == IF n < 0 THEN <<"-">> \o to_string_nat(-n) ELSE to_string_nat(n)

DigitValue(c) == CHOOSE d \in 0..9 : Digits[d + 1] = c
IsDigit(c) == \E d \in 0..9 : Digits[d + 1] = c

\* static_cast<unsigned>(int): the 32 bits of v, as two halves of 16 bits
ToUnsigned(v) ==
    IF v >= 0 THEN [hi |-> v \div 65536, lo |-> v % 65536]
    ELSE LET w == (-v) - 1
         IN  [hi |-> 65535 - (w \div 65536), lo |-> 65535 - (w % 65536)]

\* std::to_string(unsigned): the decimal digits, by long division
RECURSIVE to_string_unsigned(_)
to_string_unsigned(u) ==
    LET t == (u.hi % 10) * 65536 + u.lo
        q == [hi |-> u.hi \div 10, lo |-> t \div 10]
    IN  IF q.hi = 0 /\ q.lo = 0 THEN <<Digits[(t % 10) + 1]>>
        ELSE to_string_unsigned(q) \o <<Digits[(t % 10) + 1]>>

\* unsigned < 0: no unsigned value is below zero
UnsignedLtZero(u) == FALSE

\* the unsigned order of two size_t values
ULt(a, b) == IF (a < 0) = (b < 0) THEN a < b ELSE b < 0

-----------------------------------------------------------------------------
(* align: the input, an original file and the patched file a unified diff   *)
(* relates it to.  An edit is a sequence of changes; change i deletes del   *)
(* lines of the original and adds add lines in their place.  The diff was   *)
(* made with ctx lines of context, so two changes of one file are in two    *)
(* hunks when more than 2 * ctx unchanged lines separate them.              *)

MaxHunks == 3
Contexts == {0, 1, 3}
Heads == {0, 4}
Tails == {0, 4}
Gaps == {1, 2}
\* <<deleted lines, added lines>> of a change
Shapes == {<<0, 1>>, <<1, 0>>, <<1, 2>>, <<2, 1>>}

Changes == {[del |-> sh[1], add |-> sh[2], gap |-> g] : sh \in Shapes, g \in Gaps}

Scripts ==
    UNION {[ctx : Contexts, head : Heads, tail : Tails, changes : [1..n -> Changes]]
           : n \in 1..MaxHunks}

RECURSIVE SumBefore(_, _, _)
\* the lines of one side that lie before change i, after the head
SumBefore(s, i, side) ==
    IF i = 1 THEN 0
    ELSE SumBefore(s, i - 1, side)
         + (IF side = "original" THEN s.changes[i - 1].del ELSE s.changes[i - 1].add)
         + 2 * s.ctx + s.changes[i - 1].gap

\* the line number, on one side, of the first changed line of change i
ChangeStart(s, i, side) == s.head + 1 + SumBefore(s, i, side)
ChangeLines(s, i, side) ==
    IF side = "original" THEN s.changes[i].del ELSE s.changes[i].add
Pre(s, i) == IF i = 1 THEN Min(s.ctx, s.head) ELSE s.ctx
Post(s, i) == IF i = Len(s.changes) THEN Min(s.ctx, s.tail) ELSE s.ctx

HunkFirst(s, i, side) == ChangeStart(s, i, side) - Pre(s, i)
HunkCount(s, i, side) == Pre(s, i) + ChangeLines(s, i, side) + Post(s, i)
HunkLast(s, i, side) == HunkFirst(s, i, side) + HunkCount(s, i, side) - 1

OriginalLength(s) ==
    ChangeStart(s, Len(s.changes), "original")
    + s.changes[Len(s.changes)].del + s.tail - 1

\* line k of the original file is the token <<"o", k>>
OriginalFile(s) == [k \in 1..OriginalLength(s) |-> <<"o", k>>]

AddedLines(s, i) == [j \in 1..s.changes[i].add |-> <<"p", i, j>>]

RECURSIVE PatchedFrom(_, _)
\* the patched file from the place of original line k on
PatchedFrom(s, k) ==
    LET starts == {i \in 1..Len(s.changes) : ChangeStart(s, i, "original") = k}
        added == IF starts = {} THEN <<>>
                 ELSE AddedLines(s, CHOOSE i \in starts : TRUE)
        deleted == \E i \in 1..Len(s.changes) :
                      /\ ChangeStart(s, i, "original") <= k
                      /\ k < ChangeStart(s, i, "original") + s.changes[i].del
    IN  IF k > OriginalLength(s) THEN added
        ELSE added \o (IF deleted THEN <<>> ELSE <<<<"o", k>>>>)
                   \o PatchedFrom(s, k + 1)

PatchedFile(s) == PatchedFrom(s, 1)

\* a range of a hunk header: the count is left out when it is 1, and the
\* line before is named when the range is empty (diff -u, git diff)
Range(sign, first, count) ==
    <<sign>> \o to_string(IF count = 0 THEN first - 1 ELSE first)
             \o (IF count = 1 THEN <<>> ELSE <<",">> \o to_string(count))

HunkHead(s, i) ==
    <<"@", "@", " ">>
    \o Range("-", HunkFirst(s, i, "original"), HunkCount(s, i, "original"))
    \o <<" ">>
    \o Range("+", HunkFirst(s, i, "patched"), HunkCount(s, i, "patched"))
    \o <<" ", "@", "@">>

Repeat(line, n) == [k \in 1..n |-> line]

HunkBody(s, i) ==
    Repeat(<<" ", "c">>, Pre(s, i))
    \o Repeat(<<"-", "x">>, s.changes[i].del)
    \o Repeat(<<"+", "y">>, s.changes[i].add)
    \o Repeat(<<" ", "c">>, Post(s, i))

RECURSIVE HunksFrom(_, _)
HunksFrom(s, i) ==
    IF i > Len(s.changes) THEN <<>>
    ELSE <<HunkHead(s, i)>> \o HunkBody(s, i) \o HunksFrom(s, i + 1)

FileA == <<"a", ".", "c">>
FileB == <<"b", ".", "c">>

\* the patch section of one file: diff -u a/<file> b/<file>
FileHead(file) ==
    << <<"d", "i", "f", "f", " ", "-", "u", " ", "a", "/">> \o file
          \o <<" ", "b", "/">> \o file,
       <<"-", "-", "-", " ", "a", "/">> \o file,
       <<"+", "+", "+", " ", "b", "/">> \o file >>

PatchFile(s) == FileHead(FileA) \o HunksFrom(s, 1)

\* a patch with the same hunks that changes another file
OtherPatchFile(s) == FileHead(FileB) \o HunksFrom(s, 1)

-----------------------------------------------------------------------------
(* align: the program *)

DiffHead == <<"d", "i", "f", "f", " ", "-">>
HunkMark == <<"@", "@">>

\* std::regex_search(line, "^diff -.*"), the stopper of the hunk search
MatchesDiffHead(line) == StartsWith(line, DiffHead)

\* a file name used as a regular expression: "." stands for any character
RegexIsAt(s, pat, pos) ==
    /\ pos + Len(pat) <= Len(s)
    /\ \A k \in 1..Len(pat) : pat[k] = "." \/ s[pos + k] = pat[k]

\* std::regex_search(line, "^diff -.*" + original + ".*")
MatchesDiffFileHead(line, file) ==
    /\ StartsWith(line, DiffHead)
    /\ \E p \in Len(DiffHead)..Len(line) : RegexIsAt(line, file, p)

\* std::regex_search(line, "^@@")
MatchesHunkMark(line) == StartsWith(line, HunkMark)

\* SkipToMarker reads the file from line `pos` on: the marked line and the
\* place after it, or "" when the end of the file or a stopper comes first
\* `marker` and `stopper` are the sets of the lines the two regexes match
SkipToMarker(file, pos, marker, stopper) ==
    LET hits == {i \in pos..Len(file) : i \in marker \/ i \in stopper}
        first == CHOOSE i \in hits : \A j \in hits : i <= j
    IN  IF hits = {} THEN [line |-> <<>>, pos |-> Len(file) + 1]
        ELSE IF first \in marker THEN [line |-> file[first], pos |-> first + 1]
        ELSE [line |-> <<>>, pos |-> first + 1]

NoStopper == {}

\* std::getline(iss, token, ' '), the k-th time
RECURSIVE Token(_, _)
Token(line, k) ==
    LET p == Find(line, <<" ">>)
    IN  IF k = 1 THEN (IF p = npos THEN line ELSE SubSeq(line, 1, p))
        ELSE IF p = npos THEN <<>>
        ELSE Token(SubStrFrom(line, p + 1), k - 1)

\* std::stoi: an optional sign, then the digits up to the first other character
RECURSIVE StoiDigits(_, _)
StoiDigits(s, acc) ==
    IF s # <<>> /\ IsDigit(s[1]) THEN StoiDigits(Tail(s), 10 * acc + DigitValue(s[1]))
    ELSE acc

StoiValid(s) ==
    LET body == IF s # <<>> /\ s[1] \in {"-", "+"} THEN Tail(s) ELSE s
    IN  body # <<>> /\ IsDigit(body[1])

stoi(s) ==
    IF s # <<>> /\ s[1] = "-" THEN -StoiDigits(Tail(s), 0)
    ELSE IF s # <<>> /\ s[1] = "+" THEN StoiDigits(Tail(s), 0)
    ELSE StoiDigits(s, 0)

\* format of pair: [-+]${line#},${lines_changed}
GetOffsetLinesPair(pair) ==
    LET pos == Find(pair, <<",">>)
        offset == SubStr(pair, 1, pos - 1)
        lines == SubStrFrom(pair, pos + 1)
    IN  [offset |-> stoi(offset), lines |-> stoi(lines),
         valid |-> StoiValid(offset) /\ StoiValid(lines)]

RECURSIVE ConvertFrom(_, _, _)
ConvertFrom(patches, i, last_patch_line) ==
    IF i > Len(patches) THEN <<>>
    ELSE <<[offset |-> patches[i].offset - last_patch_line,
            lines |-> patches[i].lines]>>
         \o ConvertFrom(patches, i + 1, patches[i].offset)

\* offsets become relative to the offset of the hunk before
ConvertToRelativeOffset(patches) == ConvertFrom(patches, 1, 0)

\* the lines of context read after a hunk header, up to the first line that
\* starts with - or +, which is read too
ContextRead(file, pos) ==
    LET hits == {i \in pos..Len(file) :
                    Find(file[i], <<"-">>) = 0 \/ Find(file[i], <<"+">>) = 0}
        first == CHOOSE i \in hits : \A j \in hits : i <= j
    IN  IF hits = {} THEN [i |-> Len(file) + 1 - pos, pos |-> Len(file) + 1]
        ELSE [i |-> first - pos, pos |-> first + 1]

RECURSIVE ParseHunks(_, _, _)
\* the loop of ParsePatchFile over the hunk headers of one file's section
ParseHunks(file, pos, acc) ==
    LET mark == SkipToMarker(file, pos,
                             {k \in 1..Len(file) : MatchesHunkMark(file[k])},
                             {k \in 1..Len(file) : MatchesDiffHead(file[k])})
        o == GetOffsetLinesPair(Token(mark.line, 2))
        p == GetOffsetLinesPair(Token(mark.line, 3))
        c == ContextRead(file, mark.pos)
    IN  IF mark.line = <<>> THEN acc
        ELSE IF ~(o.valid /\ p.valid) THEN [acc EXCEPT !.thrown = TRUE]
        ELSE ParseHunks(file, c.pos,
                [acc EXCEPT
                   !.original = Append(@, [offset |-> o.offset, lines |-> o.lines]),
                   !.patched = Append(@, [offset |-> p.offset, lines |-> p.lines]),
                   !.context = Append(@, IF c.i # 0 THEN c.i - 1 ELSE 0)])

NoHunks == [original |-> <<>>, patched |-> <<>>, context |-> <<>>, thrown |-> FALSE]

\* a parse that takes the first diff line, whichever file it names
ParsePatchFile_AnyFile(patch, file) ==
    LET head == SkipToMarker(patch, 1,
                             {k \in 1..Len(patch) : MatchesDiffHead(patch[k])},
                             NoStopper)
        hunks == ParseHunks(patch, head.pos, NoHunks)
    IN  IF head.line = <<>> THEN NoHunks
        ELSE [hunks EXCEPT !.original = ConvertToRelativeOffset(@),
                           !.patched = ConvertToRelativeOffset(@)]

ParsePatchFile(patch, file) ==
    LET MatchesFile == {k \in 1..Len(patch) : MatchesDiffFileHead(patch[k], file)}
        head == SkipToMarker(patch, 1, MatchesFile, NoStopper)
        hunks == ParseHunks(patch, head.pos, NoHunks)
    IN  IF head.line = <<>> THEN NoHunks
        ELSE [hunks EXCEPT !.original = ConvertToRelativeOffset(@),
                           !.patched = ConvertToRelativeOffset(@)]

\* CopyLines: the state of the two streams after at most `lines` lines
CopyLines(st, lines) ==
    LET left == Len(st.in) - st.pos + 1
        n == IF lines < 0 THEN left ELSE Min(lines, left)
    IN  [st EXCEPT !.out = @ \o SubSeq(st.in, st.pos, st.pos + n - 1),
                   !.pos = @ + n]

\* AddEmptyLines: std::string(lines, '\n') of more than max_size() characters
\* throws std::length_error, which no handler of main catches
AddEmptyLines(st, lines) ==
    IF lines < 0 THEN [st EXCEPT !.thrown = TRUE]
    ELSE [st EXCEPT !.out = @ \o [k \in 1..lines |-> <<>>]]

RECURSIVE AlignHunks(_, _, _, _, _)
AlignHunks(st, from, to, ctx, i) ==
    IF i > Len(from) \/ st.thrown THEN st
    ELSE LET copied == CopyLines(st, from[i].offset)
             padded == IF ULt(from[i].lines, to[i].lines)
                       THEN AddEmptyLines(CopyLines(copied, ctx[i]),
                                          to[i].lines - from[i].lines)
                       ELSE copied
         IN  AlignHunks(padded, from, to, ctx, i + 1)

\* AlignCommand::AlignFile: the lines written, and whether it threw
AlignFile(in_file, from, to, ctx) ==
    LET st == AlignHunks([in |-> in_file, pos |-> 1, out |-> <<>>, thrown |-> FALSE],
                         from, to, ctx, 1)
    IN  IF st.thrown THEN st ELSE CopyLines(st, -1)

AlignIdle ==
    /\ al_pc = "idle"
    /\ al_script = <<>>
    /\ original_again = <<>>
    /\ patched_again = <<>>
    /\ diffed_file = <<>>
    /\ patch_file = <<>>
    /\ original_c = <<>>
    /\ patched_c = <<>>
    /\ original = <<>>
    /\ patched = <<>>
    /\ context = <<>>
    /\ original_out = <<>>
    /\ patched_out = <<>>

AlignInit ==
    /\ al_pc = "start"
    /\ al_script \in Scripts
    /\ diffed_file = FileA
    /\ patch_file \in {PatchFile(al_script), OtherPatchFile(al_script)}
    /\ original_c = OriginalFile(al_script)
    /\ patched_c = PatchedFile(al_script)
    /\ original = <<>>
    /\ patched = <<>>
    /\ context = <<>>
    /\ original_out = <<>>
    /\ patched_out = <<>>
    /\ original_again = <<>>
    /\ patched_again = <<>>

\* AlignCommand::Run, up to the first AlignFile
AlignParse ==
    /\ al_pc = "start"
    /\ LET r == ParsePatchFile(patch_file, diffed_file)
       IN  /\ original' = r.original
           /\ patched' = r.patched
           /\ context' = r.context
           /\ al_pc' = IF r.thrown THEN "terminated" ELSE "parsed"
    /\ UNCHANGED <<diffed_file, patch_file, original_c, patched_c, original_out,
                   patched_out, al_script, original_again, patched_again>>
    /\ UNCHANGED alignRest

\* AlignFile(original_filename_, original, patched, context)
AlignOriginal ==
    /\ al_pc = "parsed"
    /\ LET st == AlignFile(original_c, original, patched, context)
       IN  /\ original_out' = st.out
           /\ al_pc' = IF st.thrown THEN "terminated" ELSE "original_aligned"
    /\ UNCHANGED <<diffed_file, patch_file, original_c, patched_c, original,
                   patched, context, patched_out, al_script, original_again,
                   patched_again>>
    /\ UNCHANGED alignRest

\* AlignFile(patched_filename_, patched, original, context), then the return
AlignPatched ==
    /\ al_pc = "original_aligned"
    /\ LET st == AlignFile(patched_c, patched, original, context)
       IN  /\ patched_out' = st.out
           /\ al_pc' = IF st.thrown THEN "terminated" ELSE "done"
    /\ UNCHANGED <<diffed_file, patch_file, original_c, patched_c, original,
                   patched, context, original_out, al_script, original_again,
                   patched_again>>
    /\ UNCHANGED alignRest

\* AlignCommand::Run once more, with the same patch, on the two files the
\* first run has written
AlignAgain ==
    /\ al_pc = "done"
    /\ LET r == ParsePatchFile(patch_file, diffed_file)
           first == AlignFile(original_out, r.original, r.patched, r.context)
           second == AlignFile(patched_out, r.patched, r.original, r.context)
       IN  /\ original_again' = first.out
           /\ patched_again' = IF first.thrown THEN <<>> ELSE second.out
           /\ al_pc' = IF r.thrown \/ first.thrown \/ second.thrown
                       THEN "terminated" ELSE "done_again"
    /\ UNCHANGED <<diffed_file, patch_file, original_c, patched_c, original,
                   patched, context, original_out, patched_out, al_script>>
    /\ UNCHANGED alignRest

AlignNext == AlignParse \/ AlignOriginal \/ AlignPatched \/ AlignAgain

-----------------------------------------------------------------------------
(* thin archive: the input, the output of nm -f posix --defined-only on a   *)
(* thin archive.  Every member starts with the line <archive>.a[<file>]:    *)
(* and lists its symbols, one line <name> <type> <value> <size> each.       *)

MaxMembers == 3

S_helper == <<"h", "e", "l", "p", "e", "r">>
S_unique == <<"u", "n", "i", "q", "u", "e">>
S_absent == <<"a", "b", "s", "e", "n", "t">>
F_x == <<"x", ".", "o">>
F_y == <<"y", ".", "o">>
F_z == <<"z", ".", "o">>
F_w == <<"w", ".", "o">>

\* member i of the archive is the object file MemberFile[i]
MemberFile == <<F_x, F_y, F_z, F_w>>

SymbolLine(name, type) == name \o <<" ", type, " ", "0", " ", "1">>

\* the symbol lines a member can hold
MemberBodies ==
    { <<>>,
      <<SymbolLine(S_helper, "T")>>,
      <<SymbolLine(S_helper, "W")>>,
      <<SymbolLine(S_helper, "v")>>,
      <<SymbolLine(S_helper, "t")>>,
      <<SymbolLine(S_unique, "T")>>,
      <<SymbolLine(S_unique, "w")>>,
      <<SymbolLine(S_helper, "T"), SymbolLine(S_unique, "D")>>,
      <<SymbolLine(S_helper, "T"), SymbolLine(S_helper, "T")>> }

MarkerLine(file) ==
    <<"l", ".", "a", "[">> \o file \o <<"]", ":">>

RECURSIVE NmFrom(_, _)
NmFrom(bodies, i) ==
    IF i > Len(bodies) THEN <<>>
    ELSE <<MarkerLine(MemberFile[i])>> \o bodies[i] \o NmFrom(bodies, i + 1)

\* the nm output of an archive whose members hold the given symbol lines
NmOutput(bodies) == NmFrom(bodies, 1)

Archives == UNION {[1..n -> MemberBodies] : n \in 1..MaxMembers}

\* an archive in which a symbol name followed by a file name reads the same
\* as another symbol name followed by another file name: helper in xx.o and
\* helperx in x.o
S_helperx == S_helper \o <<"x">>
F_xx == <<"x">> \o F_x

PrefixedNm ==
    <<MarkerLine(F_x), SymbolLine(S_helper, "T"), SymbolLine(S_helperx, "T"),
      MarkerLine(F_xx), SymbolLine(S_helper, "T"), SymbolLine(S_helperx, "T")>>

NmFiles == {NmOutput(a) : a \in Archives} \cup {PrefixedNm}

-----------------------------------------------------------------------------
(* thin archive: the program *)

Lower == <<"a", "b", "c", "d", "e", "f", "g", "h", "i", "j", "k", "l", "m",
           "n", "o", "p", "q", "r", "s", "t", "u", "v", "w", "x", "y", "z">>
Upper == <<"A", "B", "C", "D", "E", "F", "G", "H", "I", "J", "K", "L", "M",
           "N", "O", "P", "Q", "R", "S", "T", "U", "V", "W", "X", "Y", "Z">>

toupper(c) ==
    IF \E i \in 1..Len(Lower) : Lower[i] = c
    THEN Upper[CHOOSE i \in 1..Len(Lower) : Lower[i] = c]
    ELSE c

\* line.find_first_not_of(' ', from)
FindFirstNotOf(s, c, from) ==
    LET hits == {p \in from..(Len(s) - 1) : s[p + 1] # c}
    IN  IF hits = {} THEN npos ELSE CHOOSE p \in hits : \A q \in hits : p <= q

\* ParseSymbolLine: the name, and the type with V folded to W; line.at(npos)
\* throws std::out_of_range
ParseSymbolLine(line) ==
    LET sym_end == Find(line, <<" ">>)
        symbol_name == SubStr(line, 0, sym_end)
        sym_type_pos == FindFirstNotOf(line, " ", sym_end)
        symbol_type == IF sym_end = npos THEN "?"
                       ELSE IF sym_type_pos = npos THEN "?"
                       ELSE toupper(line[sym_type_pos + 1])
    IN  [name |-> symbol_name,
         type |-> IF symbol_type = "V" THEN "W" ELSE symbol_type,
         thrown |-> sym_end # npos /\ sym_type_pos = npos]

RECURSIVE Pass1(_, _, _)
\* Step 1 of the constructor: unique_symbols_, non_weak_symbols and dup_symbols
Pass1(file, i, st) ==
    IF i > Len(file) \/ st.thrown THEN st
    ELSE LET sym == ParseSymbolLine(file[i])
         IN  IF sym.thrown THEN [st EXCEPT !.thrown = TRUE]
             ELSE IF sym.name \notin st.unique
             THEN Pass1(file, i + 1,
                     [st EXCEPT !.unique = @ \cup {sym.name},
                                !.non_weak = IF sym.type # "W"
                                             THEN @ \cup {sym.name} ELSE @])
             ELSE IF sym.type = "W" THEN Pass1(file, i + 1, st)
             ELSE Pass1(file, i + 1,
                     [st EXCEPT !.dup = IF sym.name \in st.non_weak
                                        THEN @ \cup {sym.name} ELSE @,
                                !.non_weak = @ \cup {sym.name}])

\* unique symbols from which the duplicated ones are not erased
UniqueSymbols_KeepDup(file) ==
    LET st == Pass1(file, 1, [unique |-> {}, non_weak |-> {}, dup |-> {},
                              thrown |-> FALSE])
    IN  [unique |-> st.unique, thrown |-> st.thrown]

\* the unique symbols once the duplicated ones are erased
UniqueSymbols(file) ==
    LET st == Pass1(file, 1, [unique |-> {}, non_weak |-> {}, dup |-> {},
                              thrown |-> FALSE])
    IN  [unique |-> st.unique \ st.dup, thrown |-> st.thrown]

\* std::regex_match(line, ".+\\.a\\[.+\\.o\\]:")
FilePathMatch(line) ==
    LET tail == <<".", "o", "]", ":">>
        mid == <<".", "a", "[">>
    IN  /\ Len(line) >= Len(tail)
        /\ IsAt(line, tail, Len(line) - Len(tail))
        /\ \E p \in 1..(Len(line) - Len(tail) - Len(mid) - 1) : IsAt(line, mid, p)

\* the text between the first [ and the first ]
CurrentFilename(line) ==
    LET pos_start == Find(line, <<"[">>) + 1
        pos_end == Find(line, <<"]">>)
    IN  SubStr(line, pos_start, pos_end - pos_start)

ListOf(dups, name) == IF name \in DOMAIN dups THEN dups[name] ELSE <<>>

RECURSIVE Pass2(_, _, _, _)
\* Step 2 of the constructor: the file list of every symbol that is not unique
Pass2(file, i, unique, st) ==
    IF i > Len(file) \/ st.error # "NO_ERROR" THEN st
    ELSE IF FilePathMatch(file[i])
    THEN Pass2(file, i + 1, unique,
               [st EXCEPT !.current_filename = CurrentFilename(file[i])])
    ELSE LET symbol_name == SubStr(file[i], 0, Find(file[i], <<" ">>))
             sym_file == symbol_name \o st.current_filename
         IN  IF symbol_name \in unique THEN Pass2(file, i + 1, unique, st)
             ELSE IF sym_file \in st.same_sym_file
             THEN [st EXCEPT !.error = "SAME_SYMBOL_FILENAME"]
             ELSE Pass2(file, i + 1, unique,
                     [st EXCEPT
                        !.same_sym_file = @ \cup {sym_file},
                        !.duplicated =
                            [n \in DOMAIN @ \cup {symbol_name} |->
                                IF n = symbol_name
                                THEN Append(ListOf(@, n), st.current_filename)
                                ELSE @[n]]])

\* ThinArchive::ThinArchive: the index, or the error thrown
ThinArchive(file) ==
    LET one == UniqueSymbols(file)
        two == Pass2(file, 1, one.unique,
                     [current_filename |-> <<>>, same_sym_file |-> {},
                      duplicated |-> <<>>, error |-> "NO_ERROR"])
    IN  IF one.thrown
        THEN [unique |-> {}, duplicated |-> <<>>, error |-> "terminated"]
        ELSE [unique |-> one.unique, duplicated |-> two.duplicated,
              error |-> two.error]

RECURSIVE PosFrom(_, _, _)
PosFrom(list, filename, pos) ==
    IF pos > Len(list) THEN -1
    ELSE IF filename = list[pos] THEN pos
    ELSE PosFrom(list, filename, pos + 1)

\* a QuerySymbol that counts positions from 0
QuerySymbol_FromZero(index, symbol, filename) ==
    IF symbol \in index.unique THEN 0
    ELSE IF symbol \in DOMAIN index.duplicated
    THEN LET pos == PosFrom(index.duplicated[symbol], filename, 1)
         IN  IF pos = -1 THEN -1 ELSE pos - 1
    ELSE -1

\* ThinArchive::QuerySymbol on an index
QuerySymbol(index, symbol, filename) ==
    IF symbol \in index.unique THEN 0
    ELSE IF symbol \in DOMAIN index.duplicated
    THEN PosFrom(index.duplicated[symbol], filename, 1)
    ELSE -1

ThinInit ==
    /\ ta_pc = "start"
    /\ nm_file \in NmFiles
    /\ unique_symbols_ = {}
    /\ duplicated_symbols_ = <<>>
    /\ ta_error = "NO_ERROR"
    /\ q_symbol = <<>>
    /\ q_filename = <<>>
    /\ q_ret = 0

ThinIdle ==
    /\ ta_pc = "idle"
    /\ nm_file = <<>>
    /\ unique_symbols_ = {}
    /\ duplicated_symbols_ = <<>>
    /\ ta_error = "NO_ERROR"
    /\ q_symbol = <<>>
    /\ q_filename = <<>>
    /\ q_ret = 0

\* std::make_unique<ThinArchive>(filename)
ThinBuild ==
    /\ ta_pc = "start"
    /\ LET index == ThinArchive(nm_file)
       IN  /\ unique_symbols_' = index.unique
           /\ duplicated_symbols_' = index.duplicated
           /\ ta_error' = index.error
           /\ ta_pc' = IF index.error = "NO_ERROR" THEN "built" ELSE "failed"
    /\ UNCHANGED <<nm_file, q_symbol, q_filename, q_ret>>
    /\ UNCHANGED thinRest

QuerySymbols == {S_helper, S_unique, S_absent}
QueryFiles == {F_x, F_y, F_z, F_w}

\* tar->QuerySymbol(symbol, filename)
ThinQuery ==
    /\ ta_pc \in {"built", "queried"}
    /\ \E symbol \in QuerySymbols, filename \in QueryFiles :
          /\ q_symbol' = symbol
          /\ q_filename' = filename
          /\ q_ret' = QuerySymbol([unique |-> unique_symbols_,
                                   duplicated |-> duplicated_symbols_],
                                  symbol, filename)
    /\ ta_pc' = "queried"
    /\ UNCHANGED <<nm_file, unique_symbols_, duplicated_symbols_, ta_error>>
    /\ UNCHANGED thinRest

ThinNext == ThinBuild \/ ThinQuery

-----------------------------------------------------------------------------
(* fixup, rename mode: the input, a relocatable ELF object, an optional      *)
(* kernel module and an optional nm output of a thin archive.  Symbol 0 of   *)
(* a symbol table is the dummy undefined symbol with the empty name.         *)

MaxSymbols == 3

UNDEF == 0
LIVEPATCH == 65312

\* an option that is not given: the empty file name
NoFile == [given |-> FALSE, lines |-> <<>>]
NoModule ==
    [given |-> FALSE, name |-> <<>>, modinfo |-> <<>>, symtab |-> <<>>,
     strtab |-> <<>>]
\* a std::unique_ptr<ThinArchive> that holds nothing
NullPtr == [unique |-> {}, duplicated |-> <<>>, error |-> "nullptr"]
SizeMax == -1

N_fentry == <<"_", "_", "f", "e", "n", "t", "r", "y", "_", "_">>
N_local_foo == <<"k", "l", "p", ".", "l", "o", "c", "a", "l", ".", "s", "y", "m", ":", "f", "o", "o", ":", "d", "r", "i", "v", "e", "r", "s", "/", "x", ".", "c">>
N_helper == S_helper
N_local_helper == <<"k", "l", "p", ".", "l", "o", "c", "a", "l", ".", "s", "y", "m", ":", "h", "e", "l", "p", "e", "r", ":", "y", ".", "c">>
N_bar == <<"b", "a", "r">>
N_main == <<"m", "a", "i", "n", "_", "f", "n">>
S_foo == <<"f", "o", "o">>
F_drivers_x == <<"d", "r", "i", "v", "e", "r", "s", "/", "x", ".", "o">>

Undefined(name) ==
    [name |-> name, st_type |-> "NOTYPE", st_bind |-> "GLOBAL",
     st_shndx |-> UNDEF, st_value |-> 0, st_size |-> 0]

Defined(name) ==
    [name |-> name, st_type |-> "FUNC", st_bind |-> "GLOBAL",
     st_shndx |-> 1, st_value |-> 16, st_size |-> 8]

\* the symbols an object can hold
SymbolKinds ==
    { Undefined(N_fentry), Undefined(N_local_foo), Undefined(N_helper),
      Undefined(N_local_helper), Undefined(N_bar), Defined(N_main) }

GElfSym(kind, st_name) ==
    [st_name |-> st_name, st_type |-> kind.st_type, st_bind |-> kind.st_bind,
     st_shndx |-> kind.st_shndx, st_value |-> kind.st_value,
     st_size |-> kind.st_size]

DummySymbol ==
    [st_name |-> 0, st_type |-> "NOTYPE", st_bind |-> "LOCAL",
     st_shndx |-> UNDEF, st_value |-> 0, st_size |-> 0]

RECURSIVE ElfFrom(_, _, _)
ElfFrom(kinds, i, elf) ==
    IF i > Len(kinds) THEN elf
    ELSE ElfFrom(kinds, i + 1,
                 [symtab |-> Append(elf.symtab, GElfSym(kinds[i], Len(elf.strtab))),
                  strtab |-> elf.strtab \o kinds[i].name \o <<NUL>>])

\* the symbol table and its string section for a list of symbols
ElfOf(kinds) == ElfFrom(kinds, 1, [symtab |-> <<DummySymbol>>, strtab |-> <<NUL>>])

ElfInputs == {ElfOf(k) : k \in UNION {[1..n -> SymbolKinds] : n \in 0..MaxSymbols}}

M_mod == <<"m", "o", "d">>

\* a kernel module: its name, its .modinfo section, its symbols
ModFile(name) ==
    LET elf == ElfOf(<<Defined(S_foo), Defined(S_helper), Undefined(N_bar)>>)
    IN  [given |-> TRUE,
         name |-> name,
         modinfo |-> <<"l", "i", "v", "e", "p", "a", "t", "c", "h", "=", "Y">> \o <<NUL>>
                     \o <<"n", "a", "m", "e", "=">> \o name \o <<NUL>>,
         symtab |-> elf.symtab,
         strtab |-> elf.strtab]

ModFiles == {NoModule, ModFile(M_mod)}

\* foo is unique; helper is a static function of y.o and of z.o
RenameArchives ==
    { NoFile,
      [given |-> TRUE,
       lines |-> <<MarkerLine(F_drivers_x), SymbolLine(S_foo, "T"),
                   MarkerLine(F_y), SymbolLine(S_helper, "t"),
                   MarkerLine(F_z), SymbolLine(S_helper, "t")>>] }

-----------------------------------------------------------------------------
(* fixup, rename mode: the program *)

kKlpPrefix == <<".", "k", "l", "p", ".", "s", "y", "m", ".">>
kObjVmlinux == <<"v", "m", "l", "i", "n", "u", "x", ".">>
kKLPLocalSym == <<"k", "l", "p", ".", "l", "o", "c", "a", "l", ".", "s", "y", "m">>
kModNameTag == <<"n", "a", "m", "e", "=">>

\* elf_strptr: the NUL-terminated string at an offset of a string section
elf_strptr(buf, offset) == SubSeq(buf, offset + 1, FindFrom(buf, <<NUL>>, offset))

\* ElfSymbol::Name(cursor)
Name(tab, str, cursor) == elf_strptr(str, tab[cursor + 1].st_name)

\* ElfSymbol::ElfSymbol: sym_count_
SymCount(tab) == IF Len(tab) > 0 THEN Len(tab) - 1 ELSE 0

\* ElfSymbol::HasSectionIndex(idx, cursor)
HasSectionIndex(tab, cursor, idx) == tab[cursor + 1].st_shndx = idx

\* a SetSectionIndex that leaves the index as it is
SetSectionIndex_Keep(tab, cursor, idx) == tab

\* ElfSymbol::SetSectionIndex(idx, cursor)
SetSectionIndex(tab, cursor, idx) == [tab EXCEPT ![cursor + 1].st_shndx = idx]

\* a Rename that stores the offset in st_value
Rename_IntoValue(tab, cursor, name_offset) ==
    [tab EXCEPT ![cursor + 1].st_value = name_offset]

\* the name offset is put one byte too far
Rename_OneOff(tab, cursor, name_offset) ==
    [tab EXCEPT ![cursor + 1].st_name = name_offset + 1]

\* ElfSymbol::Rename(name_offset)
Rename(tab, cursor, name_offset) == [tab EXCEPT ![cursor + 1].st_name = name_offset]

\* ElfSymbol::IsKLPLocalSymbol
IsKLPLocalSymbol(name) == StartsWith(name, kKLPLocalSym \o <<":">>)

\* ElfBin::ModName: the value of the name= tag of .modinfo
ModName(mod_info) ==
    LET mod_name_start == Find(mod_info, kModNameTag) + Len(kModNameTag)
        mod_name_end == FindFrom(mod_info, <<NUL>>, mod_name_start)
    IN  SubStr(mod_info, mod_name_start, mod_name_end - mod_name_start)

\* a symbol set that takes the undefined symbols of the module as well
ModSymbolSet_All(mod) ==
    {Name(mod.symtab, mod.strtab, k) : k \in 1..SymCount(mod.symtab)}

\* RenameKlpSymbols: the names of the defined symbols of the module
ModSymbolSet(mod) ==
    {Name(mod.symtab, mod.strtab, k) :
        k \in {j \in 1..SymCount(mod.symtab) :
                  ~HasSectionIndex(mod.symtab, j, UNDEF)}}

\* ThinArchive::Create
Create(file) == IF ~file.given THEN NullPtr ELSE ThinArchive(file.lines)

\* RenameKlpSymbols: the body of the loop for the symbol at `cursor`
RenameBody(tab, str, cursor, buf, mname, mset, index) ==
    LET name == Name(tab, str, cursor)
        sym_name_offset == Len(buf)
        SplitName == Split(name, <<":">>)
        local == IsKLPLocalSymbol(name)
        RealSymName == IF local THEN Split(SplitName[2], <<":">>)[1] ELSE name
        SrcFile == IF local THEN Split(SplitName[2], <<":">>)[2] ELSE <<>>
        filename == RSplit(SrcFile, <<".">>)[1] \o <<".", "o">>
        pos == IF index = NullPtr THEN ToUnsigned(0)
               ELSE ToUnsigned(QuerySymbol(index, RealSymName, filename))
        kKlpSymName == kKlpPrefix \o mname \o RealSymName \o <<",">>
                       \o to_string_unsigned(pos)
        marked == SetSectionIndex(tab, cursor, LIVEPATCH)
    IN  IF HasSectionIndex(tab, cursor, UNDEF) /\ name # N_fentry
        THEN IF mname # kObjVmlinux /\ RealSymName \notin mset
             THEN [symtab |-> Rename(tab, cursor, sym_name_offset),
                   buf |-> buf \o RealSymName \o <<NUL>>,
                   error |-> "NO_ERROR"]
             ELSE IF index # NullPtr /\ UnsignedLtZero(pos)
             THEN [symtab |-> marked, buf |-> buf, error |-> "SYM_FIND_FAILED"]
             ELSE [symtab |-> Rename(marked, cursor, sym_name_offset),
                   buf |-> buf \o kKlpSymName \o <<NUL>>,
                   error |-> "NO_ERROR"]
        ELSE [symtab |-> Rename(tab, cursor, sym_name_offset),
              buf |-> buf \o name \o <<NUL>>,
              error |-> "NO_ERROR"]

\* no ELF file
NoElf == [symtab |-> <<>>, strtab |-> <<>>]

RenameInit ==
    /\ rn_pc = "start"
    /\ elf_in \in ElfInputs
    /\ elf_file = elf_in
    /\ elf_again = NoElf
    /\ symtab = elf_in.symtab
    /\ strtab = elf_in.strtab
    /\ sections = <<>>
    /\ shstrtab = <<>>
    /\ mod_file \in ModFiles
    /\ thin_archive \in RenameArchives
    /\ mod_symbol_set = {}
    /\ mod_name = <<>>
    /\ tar = NullPtr
    /\ sym_name_buf = <<>>
    /\ sym_cursor_ = SizeMax
    /\ rn_error = "NO_ERROR"

\* no ELF file is open
ElfIdle ==
    /\ elf_in = NoElf
    /\ elf_file = elf_in
    /\ elf_again = NoElf
    /\ symtab = <<>>
    /\ strtab = <<>>
    /\ sections = <<>>
    /\ shstrtab = <<>>

RenameIdle ==
    /\ rn_pc = "idle"
    /\ mod_file = NoModule
    /\ thin_archive = NoFile
    /\ mod_symbol_set = {}
    /\ mod_name = <<>>
    /\ tar = NullPtr
    /\ sym_name_buf = <<>>
    /\ sym_cursor_ = SizeMax
    /\ rn_error = "NO_ERROR"

\* RenameKlpSymbols up to the loop: the module's symbols, the index, begin()
RenameLoad ==
    /\ rn_pc = "start"
    /\ mod_symbol_set' = IF ~mod_file.given THEN {} ELSE ModSymbolSet(mod_file)
    /\ mod_name' = IF ~mod_file.given THEN kObjVmlinux
                   ELSE ModName(mod_file.modinfo) \o <<".">>
    /\ sym_name_buf' = <<NUL>>
    /\ LET index == Create(thin_archive)
       IN  IF index # NullPtr /\ index.error # "NO_ERROR"
           THEN /\ tar' = NullPtr
                /\ rn_error' = index.error
                /\ rn_pc' = "failed"
                /\ UNCHANGED sym_cursor_
           ELSE /\ tar' = index
                /\ sym_cursor_' = 1
                /\ rn_pc' = "loop"
                /\ UNCHANGED rn_error
    /\ UNCHANGED <<elf_in, elf_file, elf_again, symtab, strtab, mod_file, thin_archive>>
    /\ UNCHANGED renameRest

\* one turn of the loop of RenameKlpSymbols; after the last one the new string
\* section replaces the old one and ElfUpdate writes the file
RenameSymbol ==
    /\ rn_pc = "loop"
    /\ IF sym_cursor_ >= Len(symtab)
       THEN \* gelf_getsym finds no symbol at the cursor
            /\ rn_error' = "ELF_ERROR"
            /\ rn_pc' = "failed"
            /\ UNCHANGED <<elf_file, symtab, strtab, sym_name_buf, sym_cursor_>>
       ELSE LET r == RenameBody(symtab, strtab, sym_cursor_, sym_name_buf,
                                mod_name, mod_symbol_set, tar)
            IN  /\ symtab' = r.symtab
                /\ sym_name_buf' = r.buf
                /\ rn_error' = r.error
                /\ IF r.error # "NO_ERROR"
                   THEN /\ rn_pc' = "failed"
                        /\ UNCHANGED <<elf_file, strtab, sym_cursor_>>
                   ELSE IF sym_cursor_ >= SymCount(symtab)
                   THEN /\ sym_cursor_' = SizeMax
                        /\ strtab' = r.buf
                        /\ elf_file' = [symtab |-> r.symtab, strtab |-> r.buf]
                        /\ rn_pc' = "done"
                   ELSE /\ sym_cursor_' = sym_cursor_ + 1
                        /\ rn_pc' = "loop"
                        /\ UNCHANGED <<elf_file, strtab>>
    /\ UNCHANGED <<elf_in, elf_again, mod_file, thin_archive, mod_symbol_set, mod_name,
                   tar>>
    /\ UNCHANGED renameRest

RECURSIVE RenameLoop(_, _, _, _, _, _, _)
\* the loop of RenameKlpSymbols from the symbol at `cursor` on, and the file
\* ElfUpdate writes after it
RenameLoop(tab, str, cursor, buf, mname, mset, index) ==
    IF cursor >= Len(tab)
    THEN [symtab |-> tab, strtab |-> str, error |-> "ELF_ERROR"]
    ELSE LET r == RenameBody(tab, str, cursor, buf, mname, mset, index)
         IN  IF r.error # "NO_ERROR"
             THEN [symtab |-> r.symtab, strtab |-> str, error |-> r.error]
             ELSE IF cursor >= SymCount(tab)
             THEN [symtab |-> r.symtab, strtab |-> r.buf, error |-> "NO_ERROR"]
             ELSE RenameLoop(r.symtab, str, cursor + 1, r.buf, mname, mset, index)

\* RenameKlpSymbols once more, with the same arguments, on the file the
\* first run has written
RenameAgain ==
    /\ rn_pc = "done"
    /\ \E index \in {Create(thin_archive)} :
          \E r \in {RenameLoop(elf_file.symtab, elf_file.strtab, 1, <<NUL>>,
                               IF ~mod_file.given THEN kObjVmlinux
                               ELSE ModName(mod_file.modinfo) \o <<".">>,
                               IF ~mod_file.given THEN {} ELSE ModSymbolSet(mod_file),
                               index)} :
              /\ rn_error' = r.error
              /\ IF r.error # "NO_ERROR"
                 THEN /\ rn_pc' = "failed_again"
                      /\ UNCHANGED elf_again
                 ELSE /\ rn_pc' = "done_again"
                      /\ elf_again' = [symtab |-> r.symtab, strtab |-> r.strtab]
    /\ UNCHANGED <<elf_in, elf_file, symtab, strtab, mod_file, thin_archive,
                   mod_symbol_set, mod_name, tar, sym_name_buf, sym_cursor_>>
    /\ UNCHANGED renameRest

RenameNext == RenameLoad \/ RenameSymbol \/ RenameAgain

-----------------------------------------------------------------------------
(* fixup, create-KLP-rela mode: the input, the livepatch object after the    *)
(* last link.  Section i of the file is sections[i + 1]; section 0 is the    *)
(* null section.  Every relocation section relocates one section, and no     *)
(* section has two relocation sections.                                      *)

MaxRelas == 3

RelaEntrySize == 24

K_vmlinux_foo == <<".", "k", "l", "p", ".", "s", "y", "m", ".", "v", "m", "l", "i", "n", "u", "x", ".", "f", "o", "o", ",", "0">>
K_mod_helper == <<".", "k", "l", "p", ".", "s", "y", "m", ".", "m", "o", "d", ".", "h", "e", "l", "p", "e", "r", ",", "1">>

\* the symbols of the object: 1 and 2 are KLP symbols, 3 is not
RelaSymbols == <<Undefined(K_vmlinux_foo), Undefined(K_mod_helper), Undefined(N_bar)>>

\* entry number i of a relocation section, on symbol sym
RelaEntry(i, sym) ==
    [r_offset |-> 8 * (i - 1),
     r_info |-> [sym |-> sym, type |-> "R_X86_64_PLT32"],
     r_addend |-> -4]

\* the relocation entries on a sequence of symbols
RelaData(syms) == [i \in 1..Len(syms) |-> RelaEntry(i, syms[i])]

SymSeqs(n) == UNION {[1..m -> 1..Len(RelaSymbols)] : m \in 1..n}

Progbits(name, flags) ==
    [name |-> name, sh_type |-> "SHT_PROGBITS", sh_flags |-> flags,
     sh_info |-> 0, sh_link |-> 0, sh_entsize |-> 0, sh_addralign |-> 16,
     data |-> <<>>]

RelaSection(name, target, symtab_id, syms) ==
    [name |-> name, sh_type |-> "SHT_RELA", sh_flags |-> {"SHF_INFO_LINK"},
     sh_info |-> target, sh_link |-> symtab_id,
     sh_entsize |-> RelaEntrySize, sh_addralign |-> 8,
     data |-> RelaData(syms)]

Table(name, type, link) ==
    [name |-> name, sh_type |-> type, sh_flags |-> {},
     sh_info |-> 0, sh_link |-> link, sh_entsize |-> 0, sh_addralign |-> 1,
     data |-> <<>>]

NullSection ==
    [sh_name |-> 0, sh_type |-> "SHT_NULL", sh_flags |-> {}, sh_info |-> 0,
     sh_link |-> 0, sh_size |-> 0, sh_entsize |-> 0, sh_addralign |-> 0,
     data |-> <<>>]

Shdr(sec, sh_name) ==
    [sh_name |-> sh_name, sh_type |-> sec.sh_type, sh_flags |-> sec.sh_flags,
     sh_info |-> sec.sh_info, sh_link |-> sec.sh_link,
     sh_size |-> Len(sec.data) * sec.sh_entsize,
     sh_entsize |-> sec.sh_entsize, sh_addralign |-> sec.sh_addralign,
     data |-> sec.data]

RECURSIVE SectionsFrom(_, _, _)
SectionsFrom(secs, i, img) ==
    IF i > Len(secs) THEN img
    ELSE SectionsFrom(secs, i + 1,
             [sections |-> Append(img.sections, Shdr(secs[i], Len(img.shstrtab))),
              shstrtab |-> img.shstrtab \o secs[i].name \o <<NUL>>])

\* the object with the given symbols under the entries of .rela.text,
\* .rela.data and .rela.debug; .debug is not allocated
RelaObject(text, data, debug) ==
    LET syms == ElfOf(RelaSymbols)
        img == SectionsFrom(
                  <<Progbits(<<".", "t", "e", "x", "t">>, {"SHF_ALLOC", "SHF_EXECINSTR"}),
                    RelaSection(<<".", "r", "e", "l", "a", ".", "t", "e", "x", "t">>, 1, 7, text),
                    Progbits(<<".", "d", "a", "t", "a">>, {"SHF_ALLOC", "SHF_WRITE"}),
                    RelaSection(<<".", "r", "e", "l", "a", ".", "d", "a", "t", "a">>, 3, 7, data),
                    Progbits(<<".", "d", "e", "b", "u", "g">>, {}),
                    RelaSection(<<".", "r", "e", "l", "a", ".", "d", "e", "b", "u", "g">>, 5, 7, debug),
                    Table(<<".", "s", "y", "m", "t", "a", "b">>, "SHT_SYMTAB", 8),
                    Table(<<".", "s", "t", "r", "t", "a", "b">>, "SHT_STRTAB", 0),
                    Table(<<".", "s", "h", "s", "t", "r", "t", "a", "b">>, "SHT_STRTAB", 0)>>,
                  1, [sections |-> <<NullSection>>, shstrtab |-> <<NUL>>])
    IN  [symtab |-> syms.symtab, strtab |-> syms.strtab,
         sections |-> img.sections, shstrtab |-> img.shstrtab]

RelaInputs ==
    {RelaObject(text, data, debug) :
        text \in SymSeqs(MaxRelas), data \in SymSeqs(1), debug \in SymSeqs(1)}

-----------------------------------------------------------------------------
(* fixup, create-KLP-rela mode: the program *)

kKlpRelaPrefix == <<".", "k", "l", "p", ".", "r", "e", "l", "a", ".">>

\* the order of unsigned char on the characters the names are made of
Ascii ==
    <<",", ".", "/", "0", "1", "2", "3", "4", "5", "6", "7", "8", "9", ":">>
    \o Upper \o <<"_">> \o Lower

CharCode(c) == CHOOSE i \in 1..Len(Ascii) : Ascii[i] = c

\* std::string operator<
RECURSIVE StringLess(_, _)
StringLess(a, b) ==
    IF b = <<>> THEN FALSE
    ELSE IF a = <<>> THEN TRUE
    ELSE IF a[1] # b[1] THEN CharCode(a[1]) < CharCode(b[1])
    ELSE StringLess(Tail(a), Tail(b))

\* std::pair<std::string, size_t> operator<, the order of KlpRelaEntryMap
KeyLess(a, b) == StringLess(a[1], b[1]) \/ (a[1] = b[1] /\ a[2] < b[2])

\* the keys of a std::map in the order of its iteration
RECURSIVE KeysInOrder(_)
KeysInOrder(keys) ==
    IF keys = {} THEN <<>>
    ELSE LET first == CHOOSE k \in keys : \A o \in keys \ {k} : KeyLess(k, o)
         IN  <<first>> \o KeysInOrder(keys \ {first})

\* map[key].emplace_back(value)
EmplaceBack(map, key, value) ==
    [k \in DOMAIN map \cup {key} |->
        IF k = key
        THEN (IF key \in DOMAIN map THEN map[key] ELSE <<>>) \o <<value>>
        ELSE map[k]]

\* map[key] = value
Assign(map, key, value) ==
    [k \in DOMAIN map \cup {key} |-> IF k = key THEN value ELSE map[k]]

\* HasAllocFlag
HasAllocFlag(secs, sec_id) == "SHF_ALLOC" \in secs[sec_id + 1].sh_flags

\* ElfRela::GetNextRela: the next relocation section after scn whose target
\* is allocated, 0 when there is none
GetNextRela(secs, scn) ==
    LET hits == {i \in (scn + 1)..(Len(secs) - 1) :
                    /\ secs[i + 1].sh_type = "SHT_RELA"
                    /\ HasAllocFlag(secs, secs[i + 1].sh_info)}
    IN  IF hits = {} THEN 0 ELSE CHOOSE i \in hits : \A j \in hits : i <= j

\* ElfRela::GetNextRela: rela_count_
RelaCount(sec) ==
    LET count == sec.sh_size \div sec.sh_entsize
    IN  IF count > 0 THEN count - 1 ELSE 0

\* ElfBin::SectionName
SectionName(secs, names, sec_idx) == elf_strptr(names, secs[sec_idx + 1].sh_name)

\* the rebuilds, and a section added to the file before the first ElfUpdate
UpdateRela_AndCreate(secs, map) ==
    Append([i \in DOMAIN secs |->
               IF /\ secs[i].sh_type = "SHT_RELA"
                  /\ secs[i].sh_info \in DOMAIN map
                  /\ \A j \in 2..(i - 1) :
                        ~(secs[j].sh_type = "SHT_RELA" /\ secs[j].sh_info = secs[i].sh_info)
               THEN [secs[i] EXCEPT
                        !.data = map[secs[i].sh_info],
                        !.sh_size = Len(map[secs[i].sh_info]) * RelaEntrySize]
               ELSE secs[i]],
           secs[Len(secs)])

\* ElfBin::UpdateRela for every section_id of rela_entry_map: the first
\* relocation section with sh_info = section_id gets the vector as its data
UpdateRela(secs, map) ==
    [i \in DOMAIN secs |->
        IF /\ secs[i].sh_type = "SHT_RELA"
           /\ secs[i].sh_info \in DOMAIN map
           /\ \A j \in 2..(i - 1) :
                 ~(secs[j].sh_type = "SHT_RELA" /\ secs[j].sh_info = secs[i].sh_info)
        THEN [secs[i] EXCEPT
                 !.data = map[secs[i].sh_info],
                 !.sh_size = Len(map[secs[i].sh_info]) * RelaEntrySize]
        ELSE secs[i]]

\* a new section without SHF_ALLOC
NewKlpRela_NoAlloc(section_id, symtab_id, section_name, rela_vector) ==
    [sh_name |-> section_name,
     sh_type |-> "SHT_RELA",
     sh_flags |-> {"kSectionFlagRelaLivepatch", "SHF_INFO_LINK"},
     sh_info |-> section_id,
     sh_link |-> symtab_id,
     sh_size |-> Len(rela_vector) * RelaEntrySize,
     sh_entsize |-> RelaEntrySize,
     sh_addralign |-> 8,
     data |-> rela_vector]

\* ElfBin::CreateKlpRela: the header and the data of the new section
NewKlpRela(section_id, symtab_id, section_name, rela_vector) ==
    [sh_name |-> section_name,
     sh_type |-> "SHT_RELA",
     sh_flags |-> {"kSectionFlagRelaLivepatch", "SHF_INFO_LINK", "SHF_ALLOC"},
     sh_info |-> section_id,
     sh_link |-> symtab_id,
     sh_size |-> Len(rela_vector) * RelaEntrySize,
     sh_entsize |-> RelaEntrySize,
     sh_addralign |-> 8,
     data |-> rela_vector]

\* the loop of FixupCommand::CreateKlpRela over klp_rela_entry_map: the
\* sections and the copy of the section-name string section it builds up
RECURSIVE CreateSections(_, _, _, _, _)
CreateSections(keys, i, klp_map, sym_map, img) ==
    IF i > Len(keys) THEN img
    ELSE LET entry_key == keys[i]
             kKlpRelaName == kKlpRelaPrefix \o entry_key[1] \o <<".">>
                             \o SectionName(img.sections, img.old, entry_key[2])
         IN  CreateSections(keys, i + 1, klp_map, sym_map,
                 [sections |-> Append(img.sections,
                                  NewKlpRela(entry_key[2], sym_map[entry_key[2]],
                                             Len(img.str_section),
                                             klp_map[entry_key])),
                  str_section |-> img.str_section \o kKlpRelaName \o <<NUL>>,
                  old |-> img.old])

\* the ELF file that elf_update writes
ElfImage(tab, str, secs, names) ==
    [symtab |-> tab, strtab |-> str, sections |-> secs, shstrtab |-> names]

RelaInit ==
    /\ kr_pc = "start"
    /\ elf_in \in RelaInputs
    /\ elf_file = elf_in
    /\ elf_again = NoElf
    /\ symtab = elf_in.symtab
    /\ strtab = elf_in.strtab
    /\ sections = elf_in.sections
    /\ shstrtab = elf_in.shstrtab
    /\ scn_ = 0
    /\ rela_cursor_ = SizeMax
    /\ rela_entry_map = <<>>
    /\ klp_rela_entry_map = <<>>
    /\ symtab_map = <<>>
    /\ kr_error = "NO_ERROR"

RelaIdle ==
    /\ kr_pc = "idle"
    /\ scn_ = 0
    /\ rela_cursor_ = SizeMax
    /\ rela_entry_map = <<>>
    /\ klp_rela_entry_map = <<>>
    /\ symtab_map = <<>>
    /\ kr_error = "NO_ERROR"

\* elf_bin->Relas(): ElfRela::ElfRela goes to the first relocation section
RelaBegin ==
    /\ kr_pc = "start"
    /\ LET first == GetNextRela(sections, 0)
       IN  IF first = 0
           THEN /\ kr_error' = "NO_RELA_SECTION"
                /\ kr_pc' = "failed"
                /\ UNCHANGED <<scn_, rela_cursor_>>
           ELSE /\ scn_' = first
                /\ rela_cursor_' = 0
                /\ kr_pc' = "collect"
                /\ UNCHANGED kr_error
    /\ UNCHANGED <<elf_in, elf_file, symtab, strtab, sections, shstrtab,
                   rela_entry_map, klp_rela_entry_map, symtab_map>>
    /\ UNCHANGED relaRest

\* one turn of the first loop of CreateKlpRela, and the iterator's operator++
RelaCollect ==
    /\ kr_pc = "collect"
    /\ LET sec == sections[scn_ + 1]
       IN  IF rela_cursor_ >= Len(sec.data)
           THEN \* gelf_getrela finds no entry at the cursor
                /\ kr_error' = "ELF_ERROR"
                /\ kr_pc' = "failed"
                /\ UNCHANGED <<symtab, scn_, rela_cursor_, rela_entry_map,
                               klp_rela_entry_map, symtab_map>>
           ELSE LET entry == sec.data[rela_cursor_ + 1]
                    sym_name == Name(symtab, strtab, entry.r_info.sym)
                    section_id == sec.sh_info
                    mod_name_start == Len(kKlpPrefix)
                    mod_name_end == FindFrom(sym_name, <<".">>, mod_name_start)
                                    - mod_name_start
                    module == SubStr(sym_name, mod_name_start, mod_name_end)
                    next == GetNextRela(sections, scn_)
                IN  /\ IF Find(sym_name, kKlpPrefix) # 0
                       THEN /\ rela_entry_map' =
                                  EmplaceBack(rela_entry_map, section_id, entry)
                            /\ UNCHANGED <<symtab, klp_rela_entry_map, symtab_map>>
                       ELSE /\ symtab' = SetSectionIndex(symtab, entry.r_info.sym,
                                                         LIVEPATCH)
                            /\ klp_rela_entry_map' =
                                  EmplaceBack(klp_rela_entry_map,
                                              <<module, section_id>>, entry)
                            /\ symtab_map' = Assign(symtab_map, section_id, sec.sh_link)
                            /\ UNCHANGED rela_entry_map
                    /\ IF rela_cursor_ >= RelaCount(sec)
                       THEN IF next = 0
                            THEN /\ scn_' = 0
                                 /\ rela_cursor_' = SizeMax
                                 /\ kr_pc' = "update"
                            ELSE /\ scn_' = next
                                 /\ rela_cursor_' = 0
                                 /\ kr_pc' = "collect"
                       ELSE /\ rela_cursor_' = rela_cursor_ + 1
                            /\ kr_pc' = "collect"
                            /\ UNCHANGED scn_
                    /\ UNCHANGED kr_error
    /\ UNCHANGED <<elf_in, elf_file, strtab, sections, shstrtab>>
    /\ UNCHANGED relaRest

\* the second loop of CreateKlpRela, UpdateRela for every section of
\* rela_entry_map, and the first ElfUpdate
RelaUpdate ==
    /\ kr_pc = "update"
    /\ sections' = UpdateRela(sections, rela_entry_map)
    /\ elf_file' = ElfImage(symtab, strtab, sections', shstrtab)
    /\ kr_pc' = "create"
    /\ UNCHANGED <<elf_in, symtab, strtab, shstrtab, scn_, rela_cursor_,
                   rela_entry_map, klp_rela_entry_map, symtab_map, kr_error>>
    /\ UNCHANGED relaRest

\* the third loop of CreateKlpRela, a new section for every bucket, the
\* replacement of the section-name string section and the last ElfUpdate
RelaCreate ==
    /\ kr_pc = "create"
    /\ LET img == CreateSections(KeysInOrder(DOMAIN klp_rela_entry_map), 1,
                                 klp_rela_entry_map, symtab_map,
                                 [sections |-> sections, str_section |-> shstrtab,
                                  old |-> shstrtab])
       IN  /\ sections' = img.sections
           /\ shstrtab' = img.str_section
           /\ elf_file' = ElfImage(symtab, strtab, img.sections, img.str_section)
    /\ kr_pc' = "done"
    /\ UNCHANGED <<elf_in, symtab, strtab, scn_, rela_cursor_, rela_entry_map,
                   klp_rela_entry_map, symtab_map, kr_error>>
    /\ UNCHANGED relaRest

RelaNext == RelaBegin \/ RelaCollect \/ RelaUpdate \/ RelaCreate

-----------------------------------------------------------------------------
(* diff: the IR files the function pass is run on *)

\* the most functions of a patched module
MaxFunctions == 3

S_src_a_c == <<"s", "r", "c", "/", "a", ".", "c">>
S_src == <<"s", "r", "c">>
S_init_text == <<".", "i", "n", "i", "t", ".", "t", "e", "x", "t">>
S_exit_text == <<".", "e", "x", "i", "t", ".", "t", "e", "x", "t">>
S_text_init == <<".", "t", "e", "x", "t", ".", "i", "n", "i", "t">>
S_sys_clone == <<"s", "y", "s", "_", "c", "l", "o", "n", "e">>
S_direct_call_f == <<"_", "_", "d", "i", "r", "e", "c", "t", "_", "c", "a", "l", "l", "_", "f", "1">>
S_alias_g == <<"a", "l", "i", "a", "s", "_", "g">>

\* a function body: its instructions and its line-number metadata; a
\* declaration has neither
Body(code, dbg) == [code |-> code, dbg |-> dbg]
NoBody == Body("", "")

\* a function of a module; id is the identity of the llvm::Function object,
\* an empty name is an anonymous function, an empty section is no section
Fn(id, name, section, body, linkage) ==
    [id |-> id, name |-> name, section |-> section, body |-> body,
     linkage |-> linkage]

FnName(i) == <<"f", Digits[i + 1]>>

\* what a function of the patched file is, and how it relates to the original
FunctionKinds ==
    {"same", "changed", "moved", "new", "declared_new", "init_changed",
     "exit_same", "text_init_changed", "anonymous", "anonymous_init"}

PatchedFn(kind, i) ==
    CASE kind = "same" -> Fn(i, FnName(i), <<>>, Body("c1", "l1"), "internal")
      [] kind = "changed" -> Fn(i, FnName(i), <<>>, Body("c2", "l1"), "internal")
      [] kind = "moved" -> Fn(i, FnName(i), <<>>, Body("c1", "l2"), "internal")
      [] kind = "new" -> Fn(i, FnName(i), <<>>, Body("c2", "l2"), "internal")
      [] kind = "declared_new" -> Fn(i, FnName(i), <<>>, NoBody, "external")
      [] kind = "init_changed" ->
            Fn(i, FnName(i), S_init_text, Body("c2", "l1"), "internal")
      [] kind = "exit_same" ->
            Fn(i, FnName(i), S_exit_text, Body("c1", "l1"), "internal")
      [] kind = "text_init_changed" ->
            Fn(i, FnName(i), S_text_init, Body("c2", "l1"), "internal")
      [] kind = "anonymous" -> Fn(i, <<>>, <<>>, Body("c1", "l1"), "internal")
      [] kind = "anonymous_init" ->
            Fn(i, <<>>, S_init_text, Body("c1", "l1"), "internal")

\* the kinds whose function the original file has too
InOriginal == FunctionKinds \ {"new", "declared_new"}

OriginalFn(kind, i) ==
    [PatchedFn(kind, i) EXCEPT !.body = Body("c1", "l1")]

\* the module-level inline assembly: its lines, each ended by a newline, and
\* the text after the last newline
Text(lines, tail) == [lines |-> lines, tail |-> tail]
EmptyText == Text(<<>>, <<>>)

L_globl == <<"\t", ".", "g", "l", "o", "b", "l", " ", "g">>
L_section_crc == <<"\t", ".", "s", "e", "c", "t", "i", "o", "n", " ", "_", "_", "_", "k", "c", "r", "c", "t", "a", "b", "_", "g", "p", "l", "+", "f">>
L_weak_crc == <<"\t", ".", "w", "e", "a", "k", " ", "_", "_", "c", "r", "c", "_", "f">>
L_long_crc == <<"\t", ".", "l", "o", "n", "g", " ", "_", "_", "c", "r", "c", "_", "f">>
L_previous == <<"\t", ".", "p", "r", "e", "v", "i", "o", "u", "s">>
L_section_initcall == <<"\t", ".", "s", "e", "c", "t", "i", "o", "n", " ", ".", "i", "n", "i", "t", "c", "a", "l", "l", "6", ".", "i", "n", "i", "t">>
L_initcall == <<"_", "_", "i", "n", "i", "t", "c", "a", "l", "l", "_", "f", "6", ":">>
L_long_f == <<"\t", ".", "l", "o", "n", "g", " ", "f">>
L_label == <<"x", ":">>

\* the most pieces of the inline assembly of a module
MaxAsmPieces == 3

AsmPieces == {"keep", "crc", "initcall", "crc_open", "crc_labelled"}

AsmPiece(kind) ==
    CASE kind = "keep" -> <<L_globl>>
      [] kind = "crc" -> <<L_section_crc, L_weak_crc, L_long_crc, L_previous>>
      [] kind = "initcall" ->
            <<L_section_initcall, L_initcall, L_long_f, L_previous>>
      [] kind = "crc_open" -> <<L_section_crc, L_weak_crc, L_long_crc>>
      [] kind = "crc_labelled" ->
            <<L_label \o L_section_crc, L_weak_crc, L_long_crc, L_previous>>

RECURSIVE AsmLines(_)
AsmLines(pieces) ==
    IF pieces = <<>> THEN <<>>
    ELSE AsmPiece(Head(pieces)) \o AsmLines(Tail(pieces))

\* Module::getModuleInlineAsm of a loaded file ends with a newline
AsmTexts ==
    {Text(AsmLines(pieces), <<>>) :
        pieces \in UNION {[1..n -> AsmPieces] : n \in 0..MaxAsmPieces}}

DefaultAsm == Text(AsmLines(<<"keep", "crc">>), <<>>)

\* a global variable of a module
Gvar(name, section, constant, initializer, jump_label, dso_local, linkage) ==
    [name |-> name, section |-> section, constant |-> constant,
     initializer |-> initializer, jump_label |-> jump_label,
     dso_local |-> dso_local, linkage |-> linkage]

\* the most global variables of a patched module
MaxGlobals == 2

S_g == <<"g">>
S_init_g == <<"_", "_", "i", "n", "i", "t", "c", "a", "l", "l", "_", "g">>
S_kstrtab_g == <<"_", "_", "k", "s", "t", "r", "t", "a", "b", "_", "g">>
S_const_g == <<"_", "_", "c", "o", "n", "s", "t", ".", "f", ".", "g">>
S_fentry == <<"_", "_", "f", "e", "n", "t", "r", "y", "_", "_">>
S_discard == <<".", "d", "i", "s", "c", "a", "r", "d", ".", "f", "u", "n", "c", "_", "s", "t", "a", "c", "k", "_", "f", "r", "a", "m", "e", "_", "n", "o", "n", "_", "s", "t", "a", "n", "d", "a", "r", "d">>
S_data == <<".", "d", "a", "t", "a">>

GlobalKinds ==
    {"local", "global", "new", "init_named", "kstrtab_named", "const_named",
     "discarded", "pure_constant", "jump_label", "fentry"}

GvarName(prefix, i) == prefix \o <<Digits[i + 1]>>

PatchedGvar(kind, i) ==
    CASE kind = "local" ->
            Gvar(GvarName(S_g, i), <<>>, FALSE, "expr", FALSE, TRUE, "internal")
      [] kind = "global" ->
            Gvar(GvarName(S_g, i), S_data, FALSE, "data", FALSE, FALSE, "common")
      [] kind = "new" ->
            Gvar(GvarName(S_g, i), <<>>, FALSE, "data", FALSE, TRUE, "internal")
      [] kind = "init_named" ->
            Gvar(GvarName(S_init_g, i), <<>>, FALSE, "expr", FALSE, TRUE, "internal")
      [] kind = "kstrtab_named" ->
            Gvar(GvarName(S_kstrtab_g, i), <<>>, TRUE, "data", FALSE, TRUE, "internal")
      [] kind = "const_named" ->
            Gvar(GvarName(S_const_g, i), <<>>, TRUE, "expr", FALSE, TRUE, "private")
      [] kind = "discarded" ->
            Gvar(GvarName(S_g, i), S_discard, FALSE, "expr", FALSE, TRUE, "internal")
      [] kind = "pure_constant" ->
            Gvar(GvarName(S_g, i), <<>>, TRUE, "data", FALSE, TRUE, "internal")
      [] kind = "jump_label" ->
            Gvar(GvarName(S_g, i), <<>>, FALSE, "expr", TRUE, TRUE, "internal")
      [] kind = "fentry" ->
            Gvar(S_fentry, <<>>, FALSE, "none", FALSE, TRUE, "external")

GlobalSeqs ==
    {kinds \in UNION {[1..n -> GlobalKinds] : n \in 0..MaxGlobals} :
        Cardinality({i \in 1..Len(kinds) : kinds[i] = "fentry"}) <= 1}

PatchedGlobals(kinds) == [i \in 1..Len(kinds) |-> PatchedGvar(kinds[i], i)]

OriginalGlobals(kinds) ==
    SelectSeq(PatchedGlobals(kinds),
              LAMBDA g : \E i \in 1..Len(kinds) :
                            kinds[i] # "new" /\ g = PatchedGvar(kinds[i], i))

DefaultGlobals == <<"local", "init_named">>

NullModule ==
    [valid |-> FALSE, source_file |-> <<>>, functions |-> <<>>,
     aliases |-> <<>>, used |-> <<>>, inline_asm |-> EmptyText,
     globals |-> <<>>]

IRModuleOf(functions, inline_asm, globals) ==
    [valid |-> TRUE, source_file |-> S_src_a_c, functions |-> functions,
     aliases |-> <<S_sys_clone, S_direct_call_f, S_alias_g>>, used |-> <<>>,
     inline_asm |-> inline_asm, globals |-> globals]

IRModule(functions) ==
    IRModuleOf(functions, DefaultAsm, OriginalGlobals(DefaultGlobals))

PatchedIR(kinds) ==
    IRModule([i \in 1..Len(kinds) |-> PatchedFn(kinds[i], i)])

OriginalIR(kinds) ==
    LET at == [i \in 1..Len(kinds) |-> [kind |-> kinds[i], i |-> i]]
        kept == SelectSeq(at, LAMBDA e : e.kind \in InOriginal)
    IN  IRModule([j \in 1..Len(kept) |-> OriginalFn(kept[j].kind, kept[j].i)])

\* the source file names of a module: under the base directory, and under
\* it by way of the parent directory of a subdirectory
S_src_sub_up_a_c == S_src \o <<"/", "s", "u", "b", "/", ".", ".", "/", "a", ".", "c">>
S_src_up_lib_a_c == S_src \o <<"/", ".", ".", "/", "l", "i", "b", "/", "a", ".", "c">>
SourceFiles == {S_src_a_c, S_src_sub_up_a_c, S_src_up_lib_a_c}

KindSeqs == UNION {[1..n -> FunctionKinds] : n \in 1..MaxFunctions}

\* the pairs of files: every sequence of function kinds, every inline assembly,
\* every sequence of global kinds, and the files that do not load
DiffInputs ==
    {[original |-> OriginalIR(kinds), patched |-> PatchedIR(kinds)] :
        kinds \in KindSeqs}
    \cup {[original |-> [OriginalIR(<<"changed">>) EXCEPT !.inline_asm = text],
           patched |-> [PatchedIR(<<"changed">>) EXCEPT !.inline_asm = text]] :
            text \in AsmTexts}
    \cup {[original |-> [OriginalIR(<<"changed">>) EXCEPT
                            !.globals = OriginalGlobals(kinds)],
           patched |-> [PatchedIR(<<"changed">>) EXCEPT
                            !.globals = PatchedGlobals(kinds)]] :
            kinds \in GlobalSeqs}
    \cup {[original |-> [OriginalIR(<<"changed">>) EXCEPT !.source_file = file],
           patched |-> [PatchedIR(<<"changed">>) EXCEPT !.source_file = file]] :
            file \in SourceFiles}
    \cup {[original |-> NullModule, patched |-> PatchedIR(<<"changed">>)],
          [original |-> OriginalIR(<<"changed">>), patched |-> NullModule]}

BaseDirs == {<<>>, S_src}

-----------------------------------------------------------------------------
(* diff: the function pass (src/diff_command.cc, src/main.cc) *)

NO_ERROR == 0
INVALID_LLVM_FILE == 3
NOTHING_TO_PATCH == 7

kLivepatchPrefix == <<"_", "_", "l", "i", "v", "e", "p", "a", "t", "c", "h", "_">>
kInitPrefix == <<".", "i", "n", "i", "t">>
kExitPrefix == <<".", "e", "x", "i", "t">>
kDirectCall == <<"_", "_", "d", "i", "r", "e", "c", "t", "_", "c", "a", "l", "l">>
kSysPrefix == <<"s", "y", "s", "_">>

\* FuncInSpecialSection: the section name starts with .init or .exit
FuncInSpecialSection_Never(func) == FALSE
FuncInSpecialSection(func) ==
    IF func.section = <<>> THEN FALSE
    ELSE IF Find(func.section, kInitPrefix) = 0 \/ Find(func.section, kExitPrefix) = 0
    THEN TRUE
    ELSE FALSE

\* Module::getFunction(name): the position of the function of that name, 0
\* for nullptr
getFunction(mod, name) ==
    LET hits == {i \in 1..Len(mod.functions) : mod.functions[i].name = name}
    IN  IF hits = {} THEN 0 ELSE CHOOSE i \in hits : \A j \in hits : i <= j

\* DifferenceEngine::diff and DiffConsumer::hadDifferences: the two functions
\* differ in their instructions; line-number metadata is not compared
hadDifferences(LFn, RFn) == LFn.body.code # RFn.body.code

\* the first loop of DistillDiffFunctions, from the i-th function on
RECURSIVE Classify(_, _, _, _)
Classify(LModule, fns, i, sets) ==
    IF i > Len(fns) THEN sets
    ELSE LET RFn == fns[i]
             LFn == getFunction(LModule, RFn.name)
         IN  IF RFn.name = <<>> THEN Classify(LModule, fns, i + 1, sets)
             ELSE IF FuncInSpecialSection(RFn)
             THEN Classify(LModule, fns, i + 1,
                           [sets EXCEPT !.spc = @ \cup {RFn.id}])
             ELSE IF LFn = 0
             THEN Classify(LModule, fns, i + 1,
                           [sets EXCEPT !.new = @ \cup {RFn.id}])
             ELSE IF hadDifferences(LModule.functions[LFn], RFn)
             THEN Classify(LModule, fns, i + 1,
                           [sets EXCEPT !.klp = @ \cup {RFn.id}])
             ELSE Classify(LModule, fns, i + 1, sets)

\* RemoveFuncAlias
RemoveFuncAlias(mod) ==
    [mod EXCEPT !.aliases =
        SelectSeq(@, LAMBDA alias_name :
            ~(Find(alias_name, kDirectCall) = 0 \/ Find(alias_name, kSysPrefix) = 0))]

\* RemoveBasePath
RemoveBasePath(path, base_path) == LTrim(Split(path, base_path)[2], {".", "/"})

\* ElfSymbol::CreateLivepatchedFunctionName
CreateLivepatchedFunctionName(fn_name, source_file, base_path) ==
    fn_name \o <<":">> \o RemoveBasePath(source_file, base_path)

\* Function::deleteBody: the function becomes an external declaration
deleteBody_Keep(RFn) == RFn
deleteBody(RFn) == [RFn EXCEPT !.body = NoBody, !.linkage = "external"]

\* one turn of the second loop of DistillDiffFunctions
Distill(RFn, klp, new, source_file, base_path) ==
    IF RFn.name = <<>> THEN RFn
    ELSE IF RFn.id \in new THEN RFn
    ELSE IF RFn.id \in klp
    THEN [RFn EXCEPT
            !.name = kLivepatchPrefix \o
                     CreateLivepatchedFunctionName(RFn.name, source_file, base_path),
            !.linkage = "external"]
    ELSE deleteBody(RFn)

\* appendToUsed of the livepatched functions, in the order of the second loop
UsedIds(fns, klp) ==
    LET hit == SelectSeq(fns, LAMBDA f : f.name # <<>> /\ f.id \in klp)
    IN  [j \in 1..Len(hit) |-> hit[j].id]

\* DistillDiffFunctions: the three sets, the module, and the error thrown
DistillDiffFunctions(LModule, RModule, base_path) ==
    LET sets == Classify(LModule, RModule.functions, 1,
                         [klp |-> {}, new |-> {}, spc |-> {}])
        pruned == SelectSeq(RModule.functions, LAMBDA f : f.id \notin sets.spc)
        unaliased == RemoveFuncAlias(RModule)
    IN  IF sets.klp = {} /\ sets.new = {}
        THEN [sets |-> sets, module |-> RModule, error |-> NOTHING_TO_PATCH]
        ELSE [sets |-> sets,
              module |->
                [unaliased EXCEPT
                    !.functions =
                        [j \in 1..Len(pruned) |->
                            Distill(pruned[j], sets.klp, sets.new,
                                    RModule.source_file, base_path)],
                    !.used = @ \o UsedIds(pruned, sets.klp)],
              error |-> NO_ERROR]

\* the two patterns of RemoveSpecialGlobals: each matches four lines, the
\* first holding .section and then the word first, the second and the third
\* holding the words second and third, the fourth starting with .previous
kRegexCrc ==
    [first |-> <<"k", "c", "r", "c", "t", "a", "b">>, second |-> <<"_", "_", "c", "r", "c">>, third |-> <<"_", "_", "c", "r", "c">>]
kRegexInitcall ==
    [first |-> <<"i", "n", "i", "t", "c", "a", "l", "l">>, second |-> <<"_", "_", "i", "n", "i", "t", "c", "a", "l", "l">>, third |-> <<"l", "o", "n", "g">>]
kDotSection == <<".", "s", "e", "c", "t", "i", "o", "n">>
kDotPrevious == <<".", "p", "r", "e", "v", "i", "o", "u", "s">>
kBlank == {" ", "\t"}

\* where in a line a match of [ \t]*\.section.*<word>.* can start, leftmost
\* first; npos when nowhere
SectionStart(line, word) ==
    LET starts == {p \in 0..Len(line) :
                    LET t == LTrim(SubStrFrom(line, p), kBlank)
                    IN  /\ StartsWith(t, kDotSection)
                        /\ Find(SubStrFrom(t, Len(kDotSection)), word) # npos}
    IN  IF starts = {} THEN npos
        ELSE CHOOSE p \in starts : \A q \in starts : p <= q

\* the regex matches the four lines from the i-th on
MatchesAt(lines, i, regex) ==
    /\ i + 3 <= Len(lines)
    /\ SectionStart(lines[i], regex.first) # npos
    /\ Find(lines[i + 1], regex.second) # npos
    /\ Find(lines[i + 2], regex.third) # npos
    /\ StartsWith(LTrim(lines[i + 3], kBlank), kDotPrevious)

\* std::regex_replace(out, first, last, regex, ""): every match is left out,
\* what stands before a match in its first line is kept and runs on into the
\* text after the match
RECURSIVE ReplaceFrom(_, _, _, _)
ReplaceFrom(lines, i, carry, regex) ==
    IF i > Len(lines) THEN Text(<<>>, carry)
    ELSE IF MatchesAt(lines, i, regex)
    THEN ReplaceFrom(lines, i + 4,
                     carry \o SubSeq(lines[i], 1, SectionStart(lines[i], regex.first)),
                     regex)
    ELSE LET rest == ReplaceFrom(lines, i + 1, <<>>, regex)
         IN  Text(<<carry \o lines[i]>> \o rest.lines, rest.tail)

regex_replace(text, regex) ==
    LET r == ReplaceFrom(text.lines, 1, <<>>, regex)
    IN  Text(r.lines, r.tail \o text.tail)

\* std::back_inserter(str) appends to str
Append2(str, text) ==
    IF str.tail = <<>> THEN Text(str.lines \o text.lines, text.tail)
    ELSE IF text.lines = <<>> THEN Text(str.lines, str.tail \o text.tail)
    ELSE Text(str.lines \o <<str.tail \o Head(text.lines)>> \o Tail(text.lines),
              text.tail)

\* the loop of RemoveInlineAssembly from the k-th regex on: the two strings
\* after it
RECURSIVE RemoveLoop(_, _, _, _)
RemoveLoop(regex_strs, k, original_inline_assembly, inline_assembly_removed) ==
    IF k > Len(regex_strs)
    THEN [original_inline_assembly |-> original_inline_assembly,
          inline_assembly_removed |-> inline_assembly_removed]
    ELSE RemoveLoop(regex_strs, k + 1,
                    Append2(inline_assembly_removed,
                            regex_replace(original_inline_assembly, regex_strs[k])),
                    EmptyText)

\* RemoveInlineAssembly: returns inline_assembly_removed
RemoveInlineAssembly(regex_strs, inline_assembly) ==
    RemoveLoop(regex_strs, 1, inline_assembly, EmptyText).inline_assembly_removed

\* Module::setModuleInlineAsm: a newline is added to a text that does not end
\* with one
setModuleInlineAsm(text) ==
    IF text.tail = <<>> THEN text ELSE Text(text.lines \o <<text.tail>>, <<>>)

kGvarInit == <<"_", "_", "i", "n", "i", "t">>
kGvarExit == <<"_", "_", "e", "x", "i", "t">>
kGvarKstrtab == <<"_", "_", "k", "s", "t", "r", "t", "a", "b">>
kGvarKsymtab == <<"_", "_", "k", "s", "y", "m", "t", "a", "b">>
kGvarConst == <<"_", "_", "c", "o", "n", "s", "t">>
kDiscardSection == <<".", "d", "i", "s", "c", "a", "r", "d", ".", "f", "u", "n", "c", "_", "s", "t", "a", "c", "k", "_", "f", "r", "a", "m", "e", "_", "n", "o", "n", "_", "s", "t", "a", "n", "d", "a", "r", "d">>
kFentry == <<"_", "_", "f", "e", "n", "t", "r", "y", "_", "_">>

\* RemoveSpecialGlobals
RemoveSpecialGlobals(mod) ==
    [mod EXCEPT
        !.globals =
            SelectSeq(@, LAMBDA GVR :
                ~(\/ Find(GVR.name, kGvarInit) = 0
                  \/ Find(GVR.name, kGvarExit) = 0
                  \/ Find(GVR.name, kGvarKstrtab) = 0
                  \/ Find(GVR.name, kGvarKsymtab) = 0)),
        !.inline_asm =
            setModuleInlineAsm(
                RemoveInlineAssembly(<<kRegexCrc, kRegexInitcall>>, @))]

\* GvarInSpecialSection
GvarInSpecialSection(gvar) ==
    IF gvar.section = <<>> THEN FALSE
    ELSE Find(gvar.section, kDiscardSection) = 0

\* GvarIsJumpLabel: the printed type holds struct.jump_entry
GvarIsJumpLabel(gvar) == gvar.jump_label

\* Module::getGlobalVariable(name, AllowInternal = true): found or not
getGlobalVariable(mod, name) ==
    \E i \in 1..Len(mod.globals) : mod.globals[i].name = name

\* ElfSymbol::CreateKlpLocalSymName
CreateKlpLocalSymName(sym_name) == kKLPLocalSym \o <<":">> \o sym_name

\* ElfSymbol::CreateLivepatchedSymbolName
CreateLivepatchedSymbolName(orig_name, filename, base_path) ==
    CreateKlpLocalSymName(orig_name) \o <<":">> \o RemoveBasePath(filename, base_path)

\* one turn of the loop of DistillDiffGlobals
DistillGlobal(GVR, LModule, base_path) ==
    IF Find(GVR.name, kGvarConst) = 0 THEN GVR
    ELSE IF GvarInSpecialSection(GVR) THEN GVR
    ELSE IF GVR.constant /\ GVR.initializer = "data" THEN GVR
    ELSE IF GvarIsJumpLabel(GVR) THEN GVR
    ELSE IF ~getGlobalVariable(LModule, GVR.name) THEN GVR
    ELSE [GVR EXCEPT
            !.initializer = "none",
            !.linkage = "external",
            !.name = IF GVR.dso_local /\ GVR.name # kFentry
                     THEN CreateLivepatchedSymbolName(GVR.name, LModule.source_file,
                                                      base_path)
                     ELSE @]

\* DistillDiffGlobals: the module after it; it always returns NO_ERROR
DistillDiffGlobals(LModule, RModule, base_path) ==
    LET pruned == RemoveSpecialGlobals(RModule)
    IN  [pruned EXCEPT
            !.globals = [j \in 1..Len(@) |-> DistillGlobal(@[j], LModule, base_path)]]

DiffInit ==
    /\ df_pc = "start"
    /\ \E files \in DiffInputs :
        /\ original_ll = files.original
        /\ patched_ll = files.patched
    /\ base_dir_ \in BaseDirs
    /\ PatchedModule = NullModule
    /\ klp_func_set = {}
    /\ new_func_set = {}
    /\ spc_func_set = {}
    /\ output_ir = NullModule
    /\ exit_code = NO_ERROR

DiffIdle ==
    /\ df_pc = "idle"
    /\ original_ll = NullModule
    /\ patched_ll = NullModule
    /\ base_dir_ = <<>>
    /\ PatchedModule = NullModule
    /\ klp_func_set = {}
    /\ new_func_set = {}
    /\ spc_func_set = {}
    /\ output_ir = NullModule
    /\ exit_code = NO_ERROR

\* DiffCommand::Run: the two files are loaded
DiffLoad ==
    /\ df_pc = "start"
    /\ IF ~original_ll.valid \/ ~patched_ll.valid
       THEN /\ df_pc' = "failed"
            /\ exit_code' = INVALID_LLVM_FILE
            /\ UNCHANGED PatchedModule
       ELSE /\ df_pc' = "loaded"
            /\ PatchedModule' = patched_ll
            /\ UNCHANGED exit_code
    /\ UNCHANGED <<original_ll, patched_ll, base_dir_, klp_func_set, new_func_set,
                   spc_func_set, output_ir>>
    /\ UNCHANGED diffRest

\* DiffCommand::DistillDiff: DistillDiffFunctions; what it throws leaves main
\* as the exit code
DiffFunctions ==
    /\ df_pc = "loaded"
    /\ LET r == DistillDiffFunctions(original_ll, PatchedModule, base_dir_)
       IN  /\ klp_func_set' = r.sets.klp
           /\ new_func_set' = r.sets.new
           /\ spc_func_set' = r.sets.spc
           /\ PatchedModule' = r.module
           /\ exit_code' = r.error
           /\ df_pc' = IF r.error = NO_ERROR THEN "distilled" ELSE "failed"
    /\ UNCHANGED <<original_ll, patched_ll, base_dir_, output_ir>>
    /\ UNCHANGED diffRest

\* DiffCommand::DistillDiff: DistillDiffGlobals
DiffGlobals ==
    /\ df_pc = "distilled"
    /\ PatchedModule' = DistillDiffGlobals(original_ll, PatchedModule, base_dir_)
    /\ df_pc' = "pruned"
    /\ UNCHANGED <<original_ll, patched_ll, base_dir_, klp_func_set, new_func_set,
                   spc_func_set, output_ir, exit_code>>
    /\ UNCHANGED diffRest

\* DiffCommand::Run: DumpModule writes the module DistillDiff returned
DiffDump ==
    /\ df_pc = "pruned"
    /\ output_ir' = PatchedModule
    /\ exit_code' = NO_ERROR
    /\ df_pc' = "done"
    /\ UNCHANGED <<original_ll, patched_ll, base_dir_, PatchedModule, klp_func_set,
                   new_func_set, spc_func_set>>
    /\ UNCHANGED diffRest

DiffNext == DiffLoad \/ DiffFunctions \/ DiffGlobals \/ DiffDump

-----------------------------------------------------------------------------
(* gen: the object, the templates and the files it is run on *)

G_klp_foo == <<"_", "_", "l", "i", "v", "e", "p", "a", "t", "c", "h", "_", "f", "o", "o", ":", "d", "r", "i", "v", "e", "r", "s", "/", "x", ".", "c">>
G_klp_helper == <<"_", "_", "l", "i", "v", "e", "p", "a", "t", "c", "h", "_", "h", "e", "l", "p", "e", "r", ":", "z", ".", "c">>
G_klp_bar == <<"_", "_", "l", "i", "v", "e", "p", "a", "t", "c", "h", "_", "b", "a", "r", ":", "w", ".", "c">>
G_klp_twice == <<"_", "_", "l", "i", "v", "e", "p", "a", "t", "c", "h", "_", "a", "_", "_", "l", "i", "v", "e", "p", "a", "t", "c", "h", "_", "b", ":", "z", ".", "c">>
G_klp_bare == <<"_", "_", "l", "i", "v", "e", "p", "a", "t", "c", "h", "_", "b", "a", "z">>
G_inner == <<"x", "_", "_", "l", "i", "v", "e", "p", "a", "t", "c", "h", "_", "y", ":", "q", ".", "c">>
G_local_foo == N_local_foo

\* the symbols an object given to gen can hold; the empty name is that of a
\* section symbol
GenSymbolKinds ==
    { Defined(G_klp_foo), Defined(G_klp_helper), Defined(G_klp_bar),
      Defined(G_klp_twice), Defined(G_klp_bare), Defined(G_inner),
      Undefined(G_local_foo), Defined(<<>>) }

GenElfInputs ==
    {ElfOf(k) : k \in UNION {[1..n -> GenSymbolKinds] : n \in 0..MaxSymbols}}

GenElfDefault == ElfOf(<<Defined(G_klp_foo), Defined(G_klp_helper), Defined(G_inner)>>)

kFuncMarker == <<"{", "{", "L", "I", "S", "T", "_", "O", "F", "_", "L", "I", "V", "E", "P", "A", "T", "C", "H", "_", "F", "U", "N", "C", "T", "I", "O", "N", "S", "}", "}">>
kStructMarker == <<"{", "{", "L", "I", "S", "T", "_", "F", "O", "R", "_", "K", "L", "P", "_", "F", "U", "N", "C", "_", "S", "T", "R", "U", "C", "T", "}", "}">>
kObjMarker == <<"{", "{", "N", "A", "M", "E", "_", "O", "F", "_", "O", "B", "J", "E", "C", "T", "}", "}">>
kKernelPath == <<"{", "{", "P", "A", "T", "H", "_", "T", "O", "_", "L", "I", "N", "U", "X", "_", "K", "E", "R", "N", "E", "L", "_", "S", "O", "U", "R", "C", "E", "_", "T", "R", "E", "E", "}", "}">>
kKlpName == <<"{", "{", "N", "A", "M", "E", "_", "O", "F", "_", "L", "I", "V", "E", "P", "A", "T", "C", "H", "}", "}">>

\* the templates next to the executable
T_livepatch_c ==
    << <<"#", "i", "n", "c", "l", "u", "d", "e">>, kFuncMarker, <<"f", "u", "n", "c", "s", "[", "]", " ", "=", " ", "{">>, <<"\t">> \o kStructMarker, <<"}", ";", " ", "o", "b", "j", "s", "[", "]", " ", "=", " ", "{">>,
       kObjMarker, <<"}", ";">> >>
T_livepatch_lds == << <<"S", "E", "C", "T", "I", "O", "N", "S", " ", "{", "}">> >>
T_makefile ==
    << <<"K", "L", "P", "_", "B", "U", "I", "L", "D", " ", "=", " ">> \o kKernelPath, <<"K", "L", "P", "_", "N", "A", "M", "E", " ", "=", " ">> \o kKlpName, <<"a", "l", "l", ":">> >>

F_livepatch_c_tmpl == "templates/livepatch.c.tmpl"
F_livepatch_c == "ODIR/livepatch.c"
F_livepatch_lds_tmpl == "templates/livepatch.lds.tmpl"
F_livepatch_lds == "ODIR/livepatch.lds"
F_makefile_tmpl == "templates/Makefile.tmpl"
F_makefile == "ODIR/Makefile"

GenFiles ==
    {F_livepatch_c_tmpl, F_livepatch_c, F_livepatch_lds_tmpl, F_livepatch_lds,
     F_makefile_tmpl, F_makefile}

\* the arguments -k and -n
S_kernel_directory == <<"/", "k">>
S_klp_mod_name == <<"k", "l", "p", "1">>

\* a file of the output directory that does not exist
NoOutput == [exists |-> FALSE, lines |-> <<>>]
Output(lines) == [exists |-> TRUE, lines |-> lines]

\* the runs of gen: every object with and without a thin archive, and one
\* object with every module, archive and file that cannot be opened
GenInputs ==
    {[elf |-> e, archive |-> a, mod |-> NoModule, unopenable |-> {}] :
        e \in GenElfInputs, a \in RenameArchives}
    \cup {[elf |-> GenElfDefault, archive |-> a, mod |-> m, unopenable |-> u] :
            a \in RenameArchives, m \in ModFiles,
            u \in {{}} \cup {{f} : f \in GenFiles}}

-----------------------------------------------------------------------------
(* gen: the program (src/gen_command.cc) *)

kLivepatchPrefixElf == <<"_", "_", "l", "i", "v", "e", "p", "a", "t", "c", "h", "_">>
kLivepatchPrefixTmpl == <<"l", "i", "v", "e", "p", "a", "t", "c", "h", "_">>

\* DumpToMarker: what it writes, the marked line it returns, and where the
\* template is read next
RECURSIVE DumpToMarker(_, _, _)
DumpToMarker(in_file, from, marker) ==
    IF from > Len(in_file) THEN [out |-> <<>>, line |-> <<>>, next |-> from]
    ELSE IF marker # <<>> /\ Find(in_file[from], marker) # npos
    THEN [out |-> <<>>, line |-> in_file[from], next |-> from + 1]
    ELSE LET rest == DumpToMarker(in_file, from + 1, marker)
         IN  [rest EXCEPT !.out = <<in_file[from]>> \o @]

\* a file that cannot be opened goes unnoticed
OpenInOutfiles_Unnoticed(in_filename, out_filename, closed) ==
    [ec |-> "NO_ERROR", created |-> out_filename \notin closed]

\* OpenInOutfiles: the error, and whether the output file is there afterwards;
\* the output file is opened, and truncated, also when the template is not
OpenInOutfiles(in_filename, out_filename, closed) ==
    [ec |-> IF in_filename \in closed \/ out_filename \in closed
            THEN "FILE_OPEN_FAILED" ELSE "NO_ERROR",
     created |-> out_filename \notin closed]

\* Run: the body of the first loop for a symbol name; what is appended to
\* klp_func_names, or the error
Extract(symbol) ==
    IF symbol = <<>> \/ ~StartsWith(symbol, kLivepatchPrefixElf)
    THEN [error |-> "NO_ERROR", names |-> <<>>]
    ELSE IF Find(SubStrFrom(symbol, 1), kLivepatchPrefixElf) # npos
    THEN [error |-> "INVALID_KLP_PREFIX", names |-> <<>>]
    ELSE LET pair == Split(SubStrFrom(symbol, Len(kLivepatchPrefixElf)), <<":">>)
         IN  [error |-> "NO_ERROR",
              names |-> <<[func_name |-> pair[1], src_file |-> pair[2]]>>]

\* GenerateWrapper: the line of the first list for a function
Prototype(func_name) ==
    <<"v", "o", "i", "d", " ">> \o kLivepatchPrefixTmpl \o func_name \o <<"(", "v", "o", "i", "d", ")", ";">>

\* GenerateWrapper: pos for a function
SymPos(index, name) ==
    IF index = NullPtr THEN to_string_unsigned(ToUnsigned(0))
    ELSE to_string_unsigned(
            ToUnsigned(QuerySymbol(index, name.func_name,
                                   RSplit(name.src_file, <<".">>)[1] \o <<".", "o">>)))

\* GenerateWrapper: the lines of the second list for a function
KlpFuncStruct(index, name) ==
    << <<"\t", "{">>,
       <<"\t", "\t", ".", "o", "l", "d", "_", "n", "a", "m", "e", " ", "=", " ", "\"">> \o name.func_name \o <<"\"", ",">>,
       <<"\t", "\t", ".", "n", "e", "w", "_", "f", "u", "n", "c", " ", "=", " ">> \o kLivepatchPrefixTmpl \o name.func_name \o <<",">>,
       <<"\t", "\t", ".", "o", "l", "d", "_", "s", "y", "m", "p", "o", "s", " ", "=", " ">> \o SymPos(index, name) \o <<",">>,
       <<"\t", "}", ",">> >>

RECURSIVE Flatten(_)
Flatten(seqs) == IF seqs = <<>> THEN <<>> ELSE Head(seqs) \o Flatten(Tail(seqs))

\* GenerateWrapper up to ThinArchive::Create, whose result is index: the file
\* so far, the index and the error
GenerateWrapperHead(names, index, closed) ==
    LET opened == OpenInOutfiles(F_livepatch_c_tmpl, F_livepatch_c, closed)
        one == DumpToMarker(T_livepatch_c, 1, kFuncMarker)
        protos == [j \in 1..Len(names) |-> Prototype(names[j].func_name)]
    IN  IF opened.ec # "NO_ERROR"
        THEN [ec |-> opened.ec, index |-> NullPtr,
              file |-> IF opened.created THEN Output(<<>>) ELSE NoOutput]
        ELSE IF index # NullPtr /\ index.error # "NO_ERROR"
        THEN [ec |-> index.error, index |-> NullPtr,
              file |-> Output(one.out \o protos)]
        ELSE [ec |-> "NO_ERROR", index |-> index, file |-> Output(one.out \o protos)]

\* GenerateWrapper from there on: the lines it adds to the file
GenerateWrapperTail(names, m_name, index) ==
    LET one == DumpToMarker(T_livepatch_c, 1, kFuncMarker)
        two == DumpToMarker(T_livepatch_c, one.next, kStructMarker)
        structs == Flatten([j \in 1..Len(names) |-> KlpFuncStruct(index, names[j])])
        three == DumpToMarker(T_livepatch_c, two.next, kObjMarker)
        obj == <<"\t", "\t", ".", "n", "a", "m", "e", " ", "=", " ">>
               \o (IF m_name = <<>> THEN <<"N", "U", "L", "L">>
                   ELSE <<"\"">> \o m_name \o <<"\"">>)
               \o <<",">>
        four == DumpToMarker(T_livepatch_c, three.next, <<>>)
    IN  two.out \o structs \o three.out \o <<obj>> \o four.out

\* GenerateLdScript: the line for a function
LdLine(func_name) ==
    kLivepatchPrefixTmpl \o func_name \o <<" ", "=", " ">> \o kLivepatchPrefixElf
        \o func_name \o <<";">>

\* GenerateLdScript
GenerateLdScript(names, closed) ==
    LET opened == OpenInOutfiles(F_livepatch_lds_tmpl, F_livepatch_lds, closed)
        all == DumpToMarker(T_livepatch_lds, 1, <<>>)
    IN  IF opened.ec # "NO_ERROR"
        THEN [ec |-> opened.ec,
              file |-> IF opened.created THEN Output(<<>>) ELSE NoOutput]
        ELSE [ec |-> "NO_ERROR",
              file |-> Output(all.out
                              \o [j \in 1..Len(names) |-> LdLine(names[j].func_name)])]

\* GenerateMakefile
GenerateMakefile(closed) ==
    LET opened == OpenInOutfiles(F_makefile_tmpl, F_makefile, closed)
        one == DumpToMarker(T_makefile, 1, kKernelPath)
        build == SubStr(one.line, 0, Find(one.line, kKernelPath)) \o S_kernel_directory
        two == DumpToMarker(T_makefile, one.next, kKlpName)
        name == SubStr(two.line, 0, Find(two.line, kKlpName)) \o S_klp_mod_name
        three == DumpToMarker(T_makefile, two.next, <<>>)
    IN  IF opened.ec # "NO_ERROR"
        THEN [ec |-> opened.ec,
              file |-> IF opened.created THEN Output(<<>>) ELSE NoOutput]
        ELSE [ec |-> "NO_ERROR",
              file |-> Output(one.out \o <<build>> \o two.out \o <<name>> \o three.out)]

\* FixupKlpSymbols: the body of the loop for the symbol at `cursor`
StripBody_Whole(tab, str, cursor, buf) ==
    [symtab |-> Rename(tab, cursor, Len(buf)),
     buf |-> buf \o Name(tab, str, cursor) \o <<NUL>>]
StripBody(tab, str, cursor, buf) ==
    LET sym_name_offset == Len(buf)
        sym_name == Split(Name(tab, str, cursor), <<":">>)[1]
    IN  [symtab |-> Rename(tab, cursor, sym_name_offset),
         buf |-> buf \o sym_name \o <<NUL>>]

GenInit ==
    /\ gn_pc = "start"
    /\ \E run \in GenInputs :
        /\ elf_in = run.elf
        /\ thin_archive = run.archive
        /\ mod_file = run.mod
        /\ unopenable = run.unopenable
    /\ elf_file = elf_in
    /\ elf_again = NoElf
    /\ symtab = elf_in.symtab
    /\ strtab = elf_in.strtab
    /\ sections = <<>>
    /\ shstrtab = <<>>
    /\ klp_func_names = <<>>
    /\ mod_name = <<>>
    /\ tar = NullPtr
    /\ sym_name_buf = <<>>
    /\ sym_cursor_ = SizeMax
    /\ livepatch_c = NoOutput
    /\ livepatch_lds = NoOutput
    /\ makefile = NoOutput
    /\ gn_error = "NO_ERROR"
    /\ rn_pc = "idle"
    /\ mod_symbol_set = {}
    /\ rn_error = "NO_ERROR"

GenIdle ==
    /\ gn_pc = "idle"
    /\ unopenable = {}
    /\ klp_func_names = <<>>
    /\ livepatch_c = NoOutput
    /\ livepatch_lds = NoOutput
    /\ makefile = NoOutput
    /\ gn_error = "NO_ERROR"

\* Run: the object is opened and the first loop begins
GenOpen ==
    /\ gn_pc = "start"
    /\ sym_cursor_' = 1
    /\ gn_pc' = "extract"
    /\ UNCHANGED <<elf_in, elf_file, symtab, strtab, mod_file, thin_archive, mod_name,
                   tar, sym_name_buf>>
    /\ UNCHANGED <<unopenable, klp_func_names, livepatch_c, livepatch_lds, makefile,
                   gn_error>>
    /\ UNCHANGED genRest

\* Run: one turn of the first loop; after the last one the test for an empty
\* list and the name of the module
GenExtract ==
    /\ gn_pc = "extract"
    /\ IF sym_cursor_ >= Len(symtab)
       THEN \* gelf_getsym finds no symbol at the cursor
            /\ gn_error' = "ELF_ERROR"
            /\ gn_pc' = "failed"
            /\ UNCHANGED <<klp_func_names, sym_cursor_, mod_name>>
       ELSE LET r == Extract(Name(symtab, strtab, sym_cursor_))
                found == klp_func_names \o r.names
            IN  /\ klp_func_names' = found
                /\ IF r.error # "NO_ERROR"
                   THEN /\ gn_error' = r.error
                        /\ gn_pc' = "failed"
                        /\ UNCHANGED <<sym_cursor_, mod_name>>
                   ELSE IF sym_cursor_ < SymCount(symtab)
                   THEN /\ sym_cursor_' = sym_cursor_ + 1
                        /\ gn_pc' = "extract"
                        /\ UNCHANGED <<gn_error, mod_name>>
                   ELSE /\ sym_cursor_' = SizeMax
                        /\ IF found = <<>>
                           THEN /\ gn_error' = "NOTHING_TO_PATCH"
                                /\ gn_pc' = "failed"
                                /\ UNCHANGED mod_name
                           ELSE /\ mod_name' = IF ~mod_file.given THEN <<>>
                                               ELSE ModName(mod_file.modinfo)
                                /\ gn_pc' = "wrapper"
                                /\ UNCHANGED gn_error
    /\ UNCHANGED <<elf_in, elf_file, symtab, strtab, mod_file, thin_archive, tar,
                   sym_name_buf>>
    /\ UNCHANGED <<unopenable, livepatch_c, livepatch_lds, makefile>>
    /\ UNCHANGED genRest

\* Run: GenerateWrapper, up to the thin archive index
GenWrapper ==
    /\ gn_pc = "wrapper"
    /\ \E index \in {Create(thin_archive)} :
       \E r \in {GenerateWrapperHead(klp_func_names, index, unopenable)} :
           /\ livepatch_c' = r.file
           /\ gn_error' = r.ec
           /\ gn_pc' = IF r.ec = "NO_ERROR" THEN "structs" ELSE "failed"
           /\ tar' = r.index
    /\ UNCHANGED <<elf_in, elf_file, symtab, strtab, mod_file, thin_archive, mod_name,
                   sym_name_buf, sym_cursor_>>
    /\ UNCHANGED <<unopenable, klp_func_names, livepatch_lds, makefile>>
    /\ UNCHANGED genRest

\* Run: GenerateWrapper, from the list of klp_func structs to the end
GenStructs ==
    /\ gn_pc = "structs"
    /\ livepatch_c' =
        Output(livepatch_c.lines \o GenerateWrapperTail(klp_func_names, mod_name, tar))
    /\ gn_pc' = "ldscript"
    /\ UNCHANGED <<elf_in, elf_file, symtab, strtab, mod_file, thin_archive, mod_name,
                   tar, sym_name_buf, sym_cursor_>>
    /\ UNCHANGED <<unopenable, klp_func_names, livepatch_lds, makefile, gn_error>>
    /\ UNCHANGED genRest

\* Run: GenerateLdScript
GenLdScript ==
    /\ gn_pc = "ldscript"
    /\ LET r == GenerateLdScript(klp_func_names, unopenable)
       IN  /\ livepatch_lds' = r.file
           /\ gn_error' = r.ec
           /\ gn_pc' = IF r.ec = "NO_ERROR" THEN "makefile" ELSE "failed"
    /\ UNCHANGED <<elf_in, elf_file, symtab, strtab, mod_file, thin_archive, mod_name,
                   tar, sym_name_buf, sym_cursor_>>
    /\ UNCHANGED <<unopenable, klp_func_names, livepatch_c, makefile>>
    /\ UNCHANGED genRest

\* Run: GenerateMakefile; then FixupKlpSymbols begins its loop
GenMakefile ==
    /\ gn_pc = "makefile"
    /\ LET r == GenerateMakefile(unopenable)
       IN  /\ makefile' = r.file
           /\ gn_error' = r.ec
           /\ IF r.ec = "NO_ERROR"
              THEN /\ gn_pc' = "strip"
                   /\ sym_name_buf' = <<NUL>>
                   /\ sym_cursor_' = 1
              ELSE /\ gn_pc' = "failed"
                   /\ UNCHANGED <<sym_name_buf, sym_cursor_>>
    /\ UNCHANGED <<elf_in, elf_file, symtab, strtab, mod_file, thin_archive, mod_name,
                   tar>>
    /\ UNCHANGED <<unopenable, klp_func_names, livepatch_c, livepatch_lds>>
    /\ UNCHANGED genRest

\* FixupKlpSymbols: one turn of the loop; after the last one the new string
\* section replaces the old one and ElfUpdate writes the file
GenStrip ==
    /\ gn_pc = "strip"
    /\ IF sym_cursor_ >= Len(symtab)
       THEN \* gelf_getsym finds no symbol at the cursor
            /\ gn_error' = "ELF_ERROR"
            /\ gn_pc' = "failed"
            /\ UNCHANGED <<elf_file, symtab, strtab, sym_name_buf, sym_cursor_>>
       ELSE LET r == StripBody(symtab, strtab, sym_cursor_, sym_name_buf)
            IN  /\ symtab' = r.symtab
                /\ sym_name_buf' = r.buf
                /\ UNCHANGED gn_error
                /\ IF sym_cursor_ >= SymCount(symtab)
                   THEN /\ sym_cursor_' = SizeMax
                        /\ strtab' = r.buf
                        /\ elf_file' = [symtab |-> r.symtab, strtab |-> r.buf]
                        /\ gn_pc' = "done"
                   ELSE /\ sym_cursor_' = sym_cursor_ + 1
                        /\ gn_pc' = "strip"
                        /\ UNCHANGED <<elf_file, strtab>>
    /\ UNCHANGED <<elf_in, mod_file, thin_archive, mod_name, tar>>
    /\ UNCHANGED <<unopenable, klp_func_names, livepatch_c, livepatch_lds, makefile>>
    /\ UNCHANGED genRest

GenNext ==
    GenOpen \/ GenExtract \/ GenWrapper \/ GenStructs \/ GenLdScript \/ GenMakefile
    \/ GenStrip

-----------------------------------------------------------------------------
(* main: the input, a command line, and what the run of a stage can end     *)
(* with: the error code it returns, the error code it throws, or an         *)
(* exception that is no error code.                                         *)

X_llpatch == <<"l", "l", "p", "a", "t", "c", "h">>
X_dot_llpatch == <<".", "/">> \o X_llpatch
X_bin_llpatch == <<"/", "b", "i", "n", "/">> \o X_llpatch

\* argv[0], and argv[1..] up to the subcommand
CommandLines ==
    [exec : {X_llpatch, X_dot_llpatch, X_bin_llpatch},
     args : {<<>>, <<"help">>, <<"align">>, <<"diff">>, <<"fixup">>, <<"gen">>,
             <<"Help">>, <<"diffs">>, <<"">>, <<"--help">>}]

\* the values of Command::ErrorCode and of ElfErrorCode
INVALID_COMMAND == 1
FILE_OPEN_FAILED == 5
NO_SYMTAB == 4097
INVALID_KLP_PREFIX == 4098
NO_RELA_SECTION == 4100
RELA_SECTION_NOT_FOUND == 4101
SAME_SYMBOL_FILENAME == 4102

Returned(value) == [how |-> "returned", value |-> value]
Thrown(value) == [how |-> "thrown", value |-> value]
Uncaught == [how |-> "uncaught", value |-> 0]
NoErrorCode == [how |-> "none", value |-> 0]

\* errno after a failed open: ENOENT, EACCES
Errnos == {2, 13}

\* elf_errno() after a failed call: 1 to 0xFFF
LibelfErrnos == {1, 4095}

\* what Run of a command can end with
RunOutcomes(command) ==
    IF command = "AlignCommand"
    THEN {Returned(NO_ERROR), Uncaught} \cup {Thrown(e) : e \in Errnos}
    ELSE IF command = "DiffCommand"
    THEN {Returned(NO_ERROR), Returned(INVALID_LLVM_FILE), Thrown(NOTHING_TO_PATCH)}
         \cup {Returned(e) : e \in Errnos}
    ELSE IF command = "FixupCommand"
    THEN {Returned(NO_ERROR), Thrown(NO_SYMTAB), Thrown(NO_RELA_SECTION),
          Thrown(RELA_SECTION_NOT_FOUND), Thrown(SAME_SYMBOL_FILENAME)}
         \cup {Thrown(e) : e \in Errnos \cup LibelfErrnos}
    ELSE IF command = "GenCommand"
    THEN {Returned(NO_ERROR), Returned(INVALID_KLP_PREFIX), Returned(NOTHING_TO_PATCH),
          Returned(FILE_OPEN_FAILED), Thrown(NO_SYMTAB), Thrown(SAME_SYMBOL_FILENAME)}
         \cup {Thrown(e) : e \in Errnos \cup LibelfErrnos}
    ELSE {Returned(NO_ERROR)}

-----------------------------------------------------------------------------
(* main: the program *)

\* rindex(exec_name, '/'): the name after the last slash
ExecName(exec) ==
    LET slashes == {p \in 1..Len(exec) : exec[p] = "/"}
    IN  IF slashes = {} THEN exec
        ELSE SubSeq(exec, (CHOOSE p \in slashes : \A q \in slashes : q <= p) + 1,
                    Len(exec))

\* a Create that takes a missing subcommand for an invalid one
CommandCreate_NoUsage(argv) ==
    IF 1 + Len(argv.args) < 2
    THEN [command |-> "nullptr", cmd_ |-> <<>>, thrown |-> INVALID_COMMAND]
    ELSE IF argv.args[1] = "diff"
    THEN [command |-> "DiffCommand", cmd_ |-> <<>>, thrown |-> NO_ERROR]
    ELSE IF argv.args[1] = "gen"
    THEN [command |-> "GenCommand", cmd_ |-> <<>>, thrown |-> NO_ERROR]
    ELSE IF argv.args[1] = "fixup"
    THEN [command |-> "FixupCommand", cmd_ |-> <<>>, thrown |-> NO_ERROR]
    ELSE IF argv.args[1] = "align"
    THEN [command |-> "AlignCommand", cmd_ |-> <<>>, thrown |-> NO_ERROR]
    ELSE IF argv.args[1] = "help"
    THEN [command |-> "UsageCommand", cmd_ |-> ExecName(argv.exec), thrown |-> NO_ERROR]
    ELSE [command |-> "nullptr", cmd_ |-> <<>>, thrown |-> INVALID_COMMAND]

\* Command::Create: the command made, or the error code thrown
CommandCreate(argv) ==
    IF 1 + Len(argv.args) < 2
    THEN [command |-> "UsageCommand", cmd_ |-> ExecName(argv.exec), thrown |-> NO_ERROR]
    ELSE IF argv.args[1] = "diff"
    THEN [command |-> "DiffCommand", cmd_ |-> <<>>, thrown |-> NO_ERROR]
    ELSE IF argv.args[1] = "gen"
    THEN [command |-> "GenCommand", cmd_ |-> <<>>, thrown |-> NO_ERROR]
    ELSE IF argv.args[1] = "fixup"
    THEN [command |-> "FixupCommand", cmd_ |-> <<>>, thrown |-> NO_ERROR]
    ELSE IF argv.args[1] = "align"
    THEN [command |-> "AlignCommand", cmd_ |-> <<>>, thrown |-> NO_ERROR]
    ELSE IF argv.args[1] = "help"
    THEN [command |-> "UsageCommand", cmd_ |-> ExecName(argv.exec), thrown |-> NO_ERROR]
    ELSE [command |-> "nullptr", cmd_ |-> <<>>, thrown |-> INVALID_COMMAND]

\* UsageCommand::Run: the first line written, which names the executable;
\* the lines after it are fixed text
UsageRun(cmd_) ==
    << <<"u", "s", "a", "g", "e", ":", " ">> \o cmd_
       \o <<" ", "<", "c", "o", "m", "m", "a", "n", "d", ">", " ",
            "[", "<", "a", "r", "g", "s", ">", "]">> >>

MainInit ==
    /\ mn_pc = "start"
    /\ mn_argv \in CommandLines
    /\ mn_command = [command |-> "nullptr", cmd_ |-> <<>>]
    /\ mn_ec = NoErrorCode
    /\ mn_out = <<>>
    /\ mn_ret = "none"

MainIdle ==
    /\ mn_pc = "idle"
    /\ mn_argv = [exec |-> <<>>, args |-> <<>>]
    /\ mn_command = [command |-> "nullptr", cmd_ |-> <<>>]
    /\ mn_ec = NoErrorCode
    /\ mn_out = <<>>
    /\ mn_ret = "none"

\* main: Command::Create(argc, argv)
MainCreate ==
    /\ mn_pc = "start"
    /\ LET r == CommandCreate(mn_argv)
       IN  IF r.thrown # NO_ERROR
           THEN /\ mn_ec' = Thrown(r.thrown)
                /\ mn_pc' = "caught"
                /\ UNCHANGED mn_command
           ELSE /\ mn_command' = [command |-> r.command, cmd_ |-> r.cmd_]
                /\ mn_pc' = "created"
                /\ UNCHANGED mn_ec
    /\ UNCHANGED <<mn_argv, mn_out, mn_ret>>
    /\ UNCHANGED mainRest

\* main: command->Run()
MainRun ==
    /\ mn_pc = "created"
    /\ \E outcome \in RunOutcomes(mn_command.command) :
          /\ mn_ec' = IF outcome = Returned(NO_ERROR) THEN NoErrorCode ELSE outcome
          /\ mn_pc' = IF outcome.how = "returned" THEN "ran"
                      ELSE IF outcome.how = "thrown" THEN "caught"
                      ELSE "terminated"
    /\ mn_out' = IF mn_command.command = "UsageCommand"
                 THEN UsageRun(mn_command.cmd_) ELSE mn_out
    /\ UNCHANGED <<mn_argv, mn_command, mn_ret>>
    /\ UNCHANGED mainRest

\* main: if (ec) return ec.value(); and the return 0 at the end
MainReturn ==
    /\ mn_pc = "ran"
    /\ mn_ret' = IF mn_ec.value # 0 THEN mn_ec.value ELSE 0
    /\ mn_pc' = "returned"
    /\ UNCHANGED <<mn_argv, mn_command, mn_ec, mn_out>>
    /\ UNCHANGED mainRest

\* main: catch (std::error_code e), return e.value()
MainCatch ==
    /\ mn_pc = "caught"
    /\ mn_ret' = mn_ec.value
    /\ mn_pc' = "returned"
    /\ UNCHANGED <<mn_argv, mn_command, mn_ec, mn_out>>
    /\ UNCHANGED mainRest

MainNext == MainCreate \/ MainRun \/ MainReturn \/ MainCatch

-----------------------------------------------------------------------------
(* align: the claims *)

\* the line number of a line in a file
LineNumber(file, line) == CHOOSE i \in 1..Len(file) : file[i] = line

\* the original lines after the end of hunk i and before the next hunk
AfterHunk(s, i) ==
    (HunkLast(s, i, "original") + 1) ..
    (IF i = Len(s.changes) THEN OriginalLength(s)
     ELSE HunkFirst(s, i + 1, "original") - 1)

SameLineNumber(k) ==
    /\ \E i \in 1..Len(original_out) : original_out[i] = <<"o", k>>
    /\ \E i \in 1..Len(patched_out) : patched_out[i] = <<"o", k>>
    /\ LineNumber(original_out, <<"o", k>>) = LineNumber(patched_out, <<"o", k>>)

\* every range of every hunk header is written with its count
CountsWritten(s) ==
    \A i \in 1..Len(s.changes) :
        HunkCount(s, i, "original") # 1 /\ HunkCount(s, i, "patched") # 1

\* a diff line of the patch names the diffed file
PatchNamesFile ==
    \E k \in 1..Len(patch_file) :
        StartsWith(patch_file[k], DiffHead) /\ Find(patch_file[k], diffed_file) # npos

\* C1: once align has padded both files, every line after the end of a hunk
\* and before the next hunk (or the end of the file) has the same line number
\* in the padded original and in the padded patched file; after every hunk,
\* whichever sides were padded in the hunks before.  Stated for the patches
\* whose hunk ranges all carry their count, so that what it shows is the
\* padding and not the parsing of a range without a count.
C1_AlignedAfterEveryHunk ==
    (al_pc = "done" /\ PatchNamesFile /\ CountsWritten(al_script)) =>
        \A i \in 1..Len(al_script.changes) :
            \A k \in AfterHunk(al_script, i) : SameLineNumber(k)

\* C16: a second run of align, with the same patch, on the two files the
\* first run has written writes the same two files again.
C16_AlignIdempotence ==
    al_pc = "done_again" =>
        /\ original_again = original_out
        /\ patched_again = patched_out

WithoutCount(s, i, side) == HunkCount(s, i, side) = 1

\* C30: a range of a hunk header written without a comma and a count, -O or
\* +O, is parsed as the offset O and the line count 1, on the original and on
\* the patched side; the parse of such a header does not fail.
C30_RangeWithoutCount ==
    (al_pc # "start" /\ PatchNamesFile) =>
        /\ Len(original) = Len(al_script.changes)
        /\ Len(patched) = Len(al_script.changes)
        /\ \A i \in 1..Len(al_script.changes) :
              /\ WithoutCount(al_script, i, "original") => original[i].lines = 1
              /\ WithoutCount(al_script, i, "patched") => patched[i].lines = 1
        /\ WithoutCount(al_script, 1, "original") =>
              original[1].offset = HunkFirst(al_script, 1, "original")
        /\ WithoutCount(al_script, 1, "patched") =>
              patched[1].offset = HunkFirst(al_script, 1, "patched")

\* the lines of a file that are not empty, in their order
NonEmptyLines(file) == SelectSeq(file, LAMBDA line : line # <<>>)
EmptyLines(file) == Len(file) - Len(NonEmptyLines(file))

RECURSIVE PaddingOwed(_, _, _, _)
\* the sum, over the hunks from i on, of what the other side has more
PaddingOwed(s, i, this, other) ==
    IF i > Len(s.changes) THEN 0
    ELSE (IF HunkCount(s, i, other) > HunkCount(s, i, this)
          THEN HunkCount(s, i, other) - HunkCount(s, i, this) ELSE 0)
         + PaddingOwed(s, i + 1, this, other)

\* C28: align writes both files; each file written holds the lines of the
\* file read, all of them, in their order and as they were, and besides them
\* only empty lines, as many as the hunks of the patch owe that side: the sum
\* over the hunks of what the other side's line count has more.
C28_ContentPreservation ==
    PatchNamesFile =>
        /\ al_pc # "terminated"
        /\ al_pc \in {"original_aligned", "done", "done_again"} =>
              /\ NonEmptyLines(original_out) = original_c
              /\ EmptyLines(original_out) =
                     PaddingOwed(al_script, 1, "original", "patched")
        /\ al_pc \in {"done", "done_again"} =>
              /\ NonEmptyLines(patched_out) = patched_c
              /\ EmptyLines(patched_out) =
                     PaddingOwed(al_script, 1, "patched", "original")

-----------------------------------------------------------------------------
(* thin archive: the claims, stated on the lines of the nm output *)

IsSymbolLine(i) == ~FilePathMatch(nm_file[i])
LineName(i) == Token(nm_file[i], 1)
LineIsWeak(i) == Token(nm_file[i], 2) \in {<<"W">>, <<"w">>, <<"V">>, <<"v">>}

\* the object file a line belongs to: the one of the last marker before it
LineFile(i) ==
    LET markers == {j \in 1..i : FilePathMatch(nm_file[j])}
        last == CHOOSE j \in markers : \A k \in markers : k <= j
    IN  IF markers = {} THEN <<>>
        ELSE SubSeq(nm_file[last], Find(nm_file[last], <<"[">>) + 2,
                    Find(nm_file[last], <<"]">>))

LinesOf(name) == {i \in 1..Len(nm_file) : IsSymbolLine(i) /\ LineName(i) = name}
NonWeakLinesOf(name) == {i \in LinesOf(name) : ~LineIsWeak(i)}

NameSeen(name) == LinesOf(name) # {}
NameDuplicated(name) == Cardinality(NonWeakLinesOf(name)) >= 2
NameUnique(name) == NameSeen(name) /\ ~NameDuplicated(name)

\* the 1-based position of a file among the files of a set of lines, counted
\* in the order of the input
PositionAmong(lines, file) ==
    LET mine == {i \in lines : LineFile(i) = file}
        first == CHOOSE i \in mine : \A j \in mine : i <= j
    IN  Cardinality({LineFile(j) : j \in {k \in lines : k <= first}})

DefinesIn(lines, file) == \E i \in lines : LineFile(i) = file

\* C3: after a successful build QuerySymbol(name, file) is 0 for a unique
\* name, whatever the file; for a duplicated name it is the 1-based position
\* of file among the object files that define the name, in input order; it is
\* -1 for a duplicated name that file does not define and for an unknown name.
C3_QueryPolicy ==
    ta_pc = "queried" =>
        /\ NameUnique(q_symbol) => q_ret = 0
        /\ (NameDuplicated(q_symbol) /\ DefinesIn(LinesOf(q_symbol), q_filename))
              => q_ret = PositionAmong(LinesOf(q_symbol), q_filename)
        /\ (NameDuplicated(q_symbol) /\ ~DefinesIn(LinesOf(q_symbol), q_filename))
              => q_ret = -1
        /\ ~NameSeen(q_symbol) => q_ret = -1

\* a duplicated name was asked for with the second of its files
C3_Witness ==
    /\ ta_pc = "queried"
    /\ NameDuplicated(q_symbol)
    /\ q_filename = F_y
    /\ q_ret = 2

\* C4: for a duplicated name, a file that defines it only weakly has no
\* position (-1), and the position of a file that defines it non-weakly counts
\* the non-weak definitions only.
C4_WeakSkipped ==
    (ta_pc = "queried" /\ NameDuplicated(q_symbol)) =>
        /\ (DefinesIn(LinesOf(q_symbol), q_filename)
             /\ ~DefinesIn(NonWeakLinesOf(q_symbol), q_filename))
              => q_ret = -1
        /\ DefinesIn(NonWeakLinesOf(q_symbol), q_filename)
              => q_ret = PositionAmong(NonWeakLinesOf(q_symbol), q_filename)

\* the symbol names of the input
SeenNames == {LineName(i) : i \in {j \in 1..Len(nm_file) : IsSymbolLine(j)}}

ThinBuilt == ta_pc \in {"built", "queried"}

\* C21: once the index is built, a symbol name of the input is a key of
\* duplicated_symbols_ exactly when the input has two or more lines that
\* define it with a type other than W, w, V, v, wherever the weak lines for
\* the name stand; every other name of the input is in unique_symbols_; no
\* name is in both, and duplicated_symbols_ has no other keys.
C21_DuplicateClassification ==
    ThinBuilt =>
        /\ \A name \in SeenNames :
              /\ name \in DOMAIN duplicated_symbols_ <=> NameDuplicated(name)
              /\ ~NameDuplicated(name) => name \in unique_symbols_
              /\ ~(name \in DOMAIN duplicated_symbols_ /\ name \in unique_symbols_)
        /\ DOMAIN duplicated_symbols_ \subseteq SeenNames

\* an index is built from an input in which a weak line for helper stands
\* before its two other lines, and helper is found duplicated, unique not
C21_Witness ==
    /\ ThinBuilt
    /\ \E i \in LinesOf(S_helper) :
          /\ LineIsWeak(i)
          /\ Cardinality({j \in NonWeakLinesOf(S_helper) : j > i}) = 2
    /\ S_helper \in DOMAIN duplicated_symbols_
    /\ S_unique \in unique_symbols_

\* a name that is not unique has two lines under one object file
ListedTwice ==
    \E name \in SeenNames :
        /\ NameDuplicated(name)
        /\ \E i, j \in LinesOf(name) : i # j /\ LineFile(i) = LineFile(j)

NoFileTwice(list) ==
    \A p, q \in 1..Len(list) : p # q => list[p] # list[q]

\* C22: the build fails with SAME_SYMBOL_FILENAME exactly when a symbol that
\* is not unique is listed twice under one object file; lines of different
\* (symbol, object file) pairs never make it fail; after a successful build
\* no file list of duplicated_symbols_ holds an object file twice.
C22_SameSymbolFilename ==
    ta_pc \in {"built", "failed", "queried"} =>
        /\ ta_error = "SAME_SYMBOL_FILENAME" <=> ListedTwice
        /\ ThinBuilt =>
              \A name \in DOMAIN duplicated_symbols_ :
                  NoFileTwice(duplicated_symbols_[name])

-----------------------------------------------------------------------------
(* fixup, rename mode: the claims, stated on the ELF file before and after *)

\* the name of symbol k of an ELF file
SymbolName(elf, k) == elf_strptr(elf.strtab, elf.symtab[k + 1].st_name)

\* the symbols of the input but the dummy one
InputSymbols == 1..(Len(elf_in.symtab) - 1)

\* the text between the first and the second colon of a klp.local.sym: name,
\* the whole name otherwise
RealNameOf(name) ==
    LET tag == <<"k", "l", "p", ".", "l", "o", "c", "a", "l", ".", "s", "y", "m", ":">>
        rest == SubSeq(name, Len(tag) + 1, Len(name))
        colons == {p \in 1..Len(rest) : rest[p] = ":"}
        second == CHOOSE p \in colons : \A q \in colons : p <= q
    IN  IF Len(name) >= Len(tag) /\ SubSeq(name, 1, Len(tag)) = tag
        THEN IF colons = {} THEN rest ELSE SubSeq(rest, 1, second - 1)
        ELSE name

\* the source file of a klp.local.sym: name with its extension replaced by .o
ObjectFileOf(name) ==
    LET tag == <<"k", "l", "p", ".", "l", "o", "c", "a", "l", ".", "s", "y", "m", ":">>
        rest == SubSeq(name, Len(tag) + 1, Len(name))
        colons == {p \in 1..Len(rest) : rest[p] = ":"}
        second == CHOOSE p \in colons : \A q \in colons : p <= q
        src == IF Len(name) >= Len(tag) /\ SubSeq(name, 1, Len(tag)) = tag
                  /\ colons # {}
               THEN SubSeq(rest, second + 1, Len(rest)) ELSE <<>>
        dots == {p \in 1..Len(src) : src[p] = "."}
        last == CHOOSE p \in dots : \A q \in dots : q <= p
    IN  (IF dots = {} THEN src ELSE SubSeq(src, 1, last - 1)) \o <<".", "o">>

\* the position the archive of -t gives a symbol of the input
ArchivePosition(name) ==
    QuerySymbol(ThinArchive(thin_archive.lines), RealNameOf(name),
                ObjectFileOf(name))

\* the undefined symbols of the input other than __fentry__
ToRename(k) ==
    /\ elf_in.symtab[k + 1].st_shndx = UNDEF
    /\ SymbolName(elf_in, k) # N_fentry

AllDigits(t) == t # <<>> /\ \A p \in 1..Len(t) : IsDigit(t[p])

\* C5: in rename mode without a kernel module every undefined symbol other
\* than __fentry__ ends with section index 0xff20 and the name
\* .klp.sym.vmlinux.<real>,<pos>, <pos> being 0 without a thin archive and the
\* archive position of (<real>, source file with .o) otherwise.
C5_RenameNaming ==
    (rn_pc = "done" /\ ~mod_file.given) =>
        \A k \in InputSymbols :
            ToRename(k) =>
                /\ elf_file.symtab[k + 1].st_shndx = LIVEPATCH
                /\ SymbolName(elf_file, k) =
                       <<".", "k", "l", "p", ".", "s", "y", "m", ".", "v", "m", "l", "i", "n", "u", "x", ".">> \o RealNameOf(SymbolName(elf_in, k)) \o <<",">>
                       \o to_string(IF thin_archive.given
                                    THEN ArchivePosition(SymbolName(elf_in, k))
                                    ELSE 0)

\* the symbols the loop has dealt with
Renamed ==
    IF rn_pc = "done" THEN InputSymbols
    ELSE IF rn_pc = "loop" THEN 1..(sym_cursor_ - 1)
    ELSE {}

\* C6: with a thin archive, once the lookup for a symbol that is being marked
\* livepatched has returned -1 the run has failed with SYM_FIND_FAILED (so it
\* neither goes on nor names the symbol); without an archive the position is 0
\* and there is no error.
C6_LookupFailure ==
    /\ thin_archive.given =>
          \A k \in Renamed :
              (symtab[k + 1].st_shndx = LIVEPATCH)
                  => ArchivePosition(SymbolName(elf_in, k)) # -1
    /\ (rn_pc = "done" /\ ~thin_archive.given) =>
          /\ rn_error = "NO_ERROR"
          /\ \A k \in InputSymbols :
                (elf_file.symtab[k + 1].st_shndx = LIVEPATCH) =>
                    LET n == SymbolName(elf_file, k)
                    IN  SubSeq(n, Len(n) - 1, Len(n)) = <<",", "0">>

\* the defined symbols of the module of -m
ModuleDefines(name) ==
    \E j \in 1..(Len(mod_file.symtab) - 1) :
        /\ mod_file.symtab[j + 1].st_shndx # UNDEF
        /\ SymbolName(mod_file, j) = name

\* C7: in module mode an undefined symbol (other than __fentry__) whose real
\* name the module does not define keeps section index UNDEF and gets its
\* real name; one whose real name the module defines gets section index
\* 0xff20 and the name .klp.sym.<mod>.<real>,<pos>.
C7_ModuleMode ==
    (rn_pc = "done" /\ mod_file.given) =>
        \A k \in InputSymbols :
            ToRename(k) =>
                LET real == RealNameOf(SymbolName(elf_in, k))
                    klp == <<".", "k", "l", "p", ".", "s", "y", "m", ".">> \o mod_file.name \o <<".">> \o real \o <<",">>
                    now == SymbolName(elf_file, k)
                IN  IF ModuleDefines(real)
                    THEN /\ elf_file.symtab[k + 1].st_shndx = LIVEPATCH
                         /\ Len(now) > Len(klp)
                         /\ SubSeq(now, 1, Len(klp)) = klp
                         /\ AllDigits(SubSeq(now, Len(klp) + 1, Len(now)))
                         /\ ~thin_archive.given =>
                                SubSeq(now, Len(klp) + 1, Len(now)) = <<"0">>
                    ELSE /\ elf_file.symtab[k + 1].st_shndx = UNDEF
                         /\ now = real

\* a run with a module went through: bar is left to the exporting object and
\* klp.local.sym:foo:drivers/x.c has become a symbol of the module
C7_Witness ==
    /\ rn_pc = "done"
    /\ mod_file.given
    /\ \E k \in InputSymbols :
          /\ SymbolName(elf_in, k) = N_bar
          /\ elf_file.symtab[k + 1].st_shndx = UNDEF
    /\ \E k \in InputSymbols :
          /\ SymbolName(elf_in, k) = N_local_foo
          /\ SymbolName(elf_file, k) = <<".", "k", "l", "p", ".", "s", "y", "m", ".", "m", "o", "d", ".", "f", "o", "o", ",", "0">>

\* C8: rename mode keeps the number of symbols and the type, binding, value
\* and size of every symbol; a section index changes only to 0xff20 and only
\* for an undefined symbol other than __fentry__; in the file written every
\* defined symbol and an undefined __fentry__ have the name and the section
\* index they had.
C8_SymbolInvariance ==
    /\ Len(symtab) = Len(elf_in.symtab)
    /\ Len(elf_file.symtab) = Len(elf_in.symtab)
    /\ \A k \in 0..(Len(elf_in.symtab) - 1) :
          \A tab \in {symtab, elf_file.symtab} :
              /\ tab[k + 1].st_type = elf_in.symtab[k + 1].st_type
              /\ tab[k + 1].st_bind = elf_in.symtab[k + 1].st_bind
              /\ tab[k + 1].st_value = elf_in.symtab[k + 1].st_value
              /\ tab[k + 1].st_size = elf_in.symtab[k + 1].st_size
              /\ (tab[k + 1].st_shndx # elf_in.symtab[k + 1].st_shndx) =>
                     (tab[k + 1].st_shndx = LIVEPATCH /\ k # 0 /\ ToRename(k))
    /\ \A k \in 0..(Len(elf_in.symtab) - 1) :
          (k = 0 \/ ~ToRename(k)) =>
              /\ SymbolName(elf_file, k) = SymbolName(elf_in, k)
              /\ elf_file.symtab[k + 1].st_shndx = elf_in.symtab[k + 1].st_shndx

\* a file was written in which a symbol is marked livepatched next to a
\* defined symbol and an undefined __fentry__
C8_Witness ==
    /\ rn_pc = "done"
    /\ elf_file # elf_in
    /\ \E k \in InputSymbols : elf_file.symtab[k + 1].st_shndx = LIVEPATCH
    /\ \E k \in InputSymbols : SymbolName(elf_in, k) = N_main
    /\ \E k \in InputSymbols : SymbolName(elf_in, k) = N_fentry

-----------------------------------------------------------------------------
(* fixup, create-KLP-rela mode: the claims *)

\* how often an entry occurs in a sequence of entries
Occurrences(entries, e) == Cardinality({p \in 1..Len(entries) : entries[p] = e})

\* the relocation sections of the input whose target is allocated
SplitSections ==
    {i \in 1..(Len(elf_in.sections) - 1) :
        /\ elf_in.sections[i + 1].sh_type = "SHT_RELA"
        /\ "SHF_ALLOC" \in elf_in.sections[elf_in.sections[i + 1].sh_info + 1].sh_flags}

\* the sections the run has added
NewSections == Len(elf_in.sections)..(Len(elf_file.sections) - 1)

RECURSIVE MovedFrom(_, _)
\* the entries of the new sections for a target, from section i on
MovedFrom(target, i) ==
    IF i > Len(elf_file.sections) - 1 THEN <<>>
    ELSE (IF elf_file.sections[i + 1].sh_info = target
          THEN elf_file.sections[i + 1].data ELSE <<>>)
         \o MovedFrom(target, i + 1)

\* C2: after create-KLP-rela mode, for every relocation section whose target
\* is allocated, every entry occurs before the run as often as it occurs in
\* that section and in the new sections for that target together after it:
\* nothing is lost, nothing is in both.
C2_RelaSplitTotality ==
    kr_pc = "done" =>
        \A i \in SplitSections :
            LET before == elf_in.sections[i + 1].data
                kept == elf_file.sections[i + 1].data
                moved == MovedFrom(elf_in.sections[i + 1].sh_info,
                                   Len(elf_in.sections))
            IN  \A p \in 1..Len(before) :
                    Occurrences(before, before[p]) =
                        Occurrences(kept, before[p]) + Occurrences(moved, before[p])

\* the name of the symbol an entry of the input refers to
EntrySymbol(e) == SymbolName(elf_in, e.r_info.sym)

\* the name begins with .klp.sym.
IsKlpName(name) ==
    /\ Len(name) >= Len(kKlpPrefix)
    /\ SubSeq(name, 1, Len(kKlpPrefix)) = kKlpPrefix

\* the text between .klp.sym. and the next dot of a KLP symbol name
ObjectOf(name) ==
    LET rest == SubSeq(name, Len(kKlpPrefix) + 1, Len(name))
        dots == {p \in 1..Len(rest) : rest[p] = "."}
    IN  IF dots = {} THEN rest
        ELSE SubSeq(rest, 1, (CHOOSE p \in dots : \A q \in dots : p <= q) - 1)

\* the entries of relocation section i of the input on KLP symbols of an object
BucketEntries(i, object) ==
    SelectSeq(elf_in.sections[i + 1].data,
              LAMBDA e : IsKlpName(EntrySymbol(e)) /\ ObjectOf(EntrySymbol(e)) = object)

\* the buckets of the input: a relocation section and an object with an entry
Buckets ==
    {<<i, ObjectOf(EntrySymbol(elf_in.sections[i + 1].data[p]))>> :
        <<i, p>> \in {<<i, p>> \in SplitSections \X (1..MaxRelas) :
                         /\ p <= Len(elf_in.sections[i + 1].data)
                         /\ IsKlpName(EntrySymbol(elf_in.sections[i + 1].data[p]))}}

\* new section j is the section of bucket b
IsSectionOf(j, b) ==
    LET sec == elf_file.sections[j + 1]
        from == elf_in.sections[b[1] + 1]
    IN  /\ sec.sh_info = from.sh_info
        /\ sec.sh_link = from.sh_link
        /\ sec.data = BucketEntries(b[1], b[2])

\* C14: after create-KLP-rela mode every section the run has added is the
\* section of one bucket (object, target section), and every bucket has one:
\* the type is SHT_RELA, the entry size that of one rela entry, the alignment
\* 8, sh_info the target section, sh_link the symbol table of the relocation
\* section the entries came from, the flags the KLP marker, SHF_INFO_LINK and
\* SHF_ALLOC, the size the entry count times the entry size, and the contents
\* the entries of the bucket, in their order.
C14_KlpRelaHeader ==
    kr_pc = "done" =>
        /\ Cardinality(NewSections) = Cardinality(Buckets)
        /\ \A b \in Buckets : \E j \in NewSections : IsSectionOf(j, b)
        /\ \A j \in NewSections :
              LET sec == elf_file.sections[j + 1]
              IN  /\ \E b \in Buckets : IsSectionOf(j, b)
                  /\ sec.sh_type = "SHT_RELA"
                  /\ sec.sh_entsize = RelaEntrySize
                  /\ sec.sh_addralign = 8
                  /\ sec.sh_flags = {"kSectionFlagRelaLivepatch", "SHF_INFO_LINK",
                                     "SHF_ALLOC"}
                  /\ sec.sh_size = Len(sec.data) * RelaEntrySize

\* a run has added a section of two entries for .text and the object vmlinux
\* and another section for .text and the object mod
C14_Witness ==
    /\ kr_pc = "done"
    /\ \E j, k \in NewSections :
          /\ j # k
          /\ elf_file.sections[j + 1].sh_info = 1
          /\ elf_file.sections[k + 1].sh_info = 1
          /\ Len(elf_file.sections[j + 1].data) = 2
          /\ \A p \in 1..2 :
                EntrySymbol(elf_file.sections[j + 1].data[p]) = K_vmlinux_foo
          /\ EntrySymbol(elf_file.sections[k + 1].data[1]) = K_mod_helper

\* the name of section j of an ELF file
SectionNameOf(elf, j) == elf_strptr(elf.shstrtab, elf.sections[j + 1].sh_name)

\* the object of the entries of a new section
SectionObject(j) == ObjectOf(EntrySymbol(elf_file.sections[j + 1].data[1]))

\* .klp.rela.<object>.<target-section-name>, as in .klp.rela.vmlinux.text for
\* the target .text: the dot the section name begins with is the one dot
\* between the object and the rest of the name
KlpRelaName(object, target_name) ==
    kKlpRelaPrefix \o object
        \o (IF target_name # <<>> /\ target_name[1] = "." THEN <<>> ELSE <<".">>)
        \o target_name

\* .rela.text of the input holds two entries on .klp.sym.vmlinux.foo,0 and
\* one on bar
TwoFooOneBar ==
    LET text == elf_in.sections[2 + 1].data
    IN  /\ Len(text) = 3
        /\ Cardinality({p \in 1..3 : EntrySymbol(text[p]) = K_vmlinux_foo}) = 2
        /\ Cardinality({p \in 1..3 : EntrySymbol(text[p]) = N_bar}) = 1

\* C15: after create-KLP-rela mode the section-name string table is the old
\* one with names appended; sh_name of every new section is the offset of
\* its own name, which ends with a NUL and reads
\* .klp.rela.<object>.<target-section-name>; for a .rela.text of two entries
\* on .klp.sym.vmlinux.foo,0 and one on bar, .rela.text keeps the entry on
\* bar and a new section named .klp.rela.vmlinux.text holds the two others.
C15_KlpRelaName ==
    kr_pc = "done" =>
        /\ SubSeq(elf_file.shstrtab, 1, Len(elf_in.shstrtab)) = elf_in.shstrtab
        /\ \A j \in NewSections :
              LET sec == elf_file.sections[j + 1]
                  name == KlpRelaName(SectionObject(j),
                                      SectionNameOf(elf_in, sec.sh_info))
              IN  /\ sec.sh_name >= Len(elf_in.shstrtab)
                  /\ sec.sh_name + Len(name) < Len(elf_file.shstrtab)
                  /\ SubSeq(elf_file.shstrtab, sec.sh_name + 1,
                            sec.sh_name + Len(name) + 1) = name \o <<NUL>>
        /\ TwoFooOneBar =>
              /\ Len(elf_file.sections[2 + 1].data) = 1
              /\ EntrySymbol(elf_file.sections[2 + 1].data[1]) = N_bar
              /\ \E j \in NewSections :
                    /\ SectionNameOf(elf_file, j) =
                          <<".", "k", "l", "p", ".", "r", "e", "l", "a", ".",
                            "v", "m", "l", "i", "n", "u", "x", ".", "t", "e", "x", "t">>
                    /\ Len(elf_file.sections[j + 1].data) = 2
                    /\ \A p \in 1..2 :
                          EntrySymbol(elf_file.sections[j + 1].data[p]) = K_vmlinux_foo

-----------------------------------------------------------------------------
(* fixup, rename mode run twice: the claim *)

\* C18: a second run of rename mode, with the same arguments, on the object
\* the first run has written ends without an error and leaves every symbol
\* with the name text and the section index the first run gave it; a name
\* that begins with .klp.sym. gets no second KLP prefix.
C18_RenameIdempotence ==
    /\ rn_pc # "failed_again"
    /\ rn_pc = "done_again" =>
          /\ Len(elf_again.symtab) = Len(elf_file.symtab)
          /\ \A k \in 0..(Len(elf_file.symtab) - 1) :
                /\ SymbolName(elf_again, k) = SymbolName(elf_file, k)
                /\ elf_again.symtab[k + 1].st_shndx = elf_file.symtab[k + 1].st_shndx
                /\ IsKlpName(SymbolName(elf_file, k)) =>
                      ~IsKlpName(SubSeq(SymbolName(elf_again, k), 2,
                                        Len(SymbolName(elf_again, k))))

\* the second run has ended on an object in which the first run had marked a
\* symbol livepatched and named it .klp.sym.*, and had left another symbol
\* undefined
C18_Witness ==
    /\ rn_pc = "done_again"
    /\ \E k \in InputSymbols :
          /\ elf_file.symtab[k + 1].st_shndx = LIVEPATCH
          /\ IsKlpName(SymbolName(elf_file, k))
          /\ SymbolName(elf_in, k) # SymbolName(elf_file, k)
    /\ \E k \in InputSymbols :
          /\ elf_file.symtab[k + 1].st_shndx = UNDEF
          /\ SymbolName(elf_file, k) # N_fentry

\* what elf_update would write now
InMemory == ElfImage(symtab, strtab, sections, shstrtab)

\* section i + 1 of the object in memory was rebuilt in place by this step
Rebuilt(i) == sections'[i] # sections[i]

\* C23: in create-KLP-rela mode nothing is written and no section changes
\* while the entries are collected; then the existing relocation sections are
\* rebuilt in place, no section is added, the section-name string table is
\* left alone, and the first ElfUpdate writes exactly that; then sections are
\* only added behind the existing ones, which stay as flushed, the string
\* table is replaced, and the last ElfUpdate writes exactly that: after it
\* the object in memory and the file are the same, nothing is changed later.
C23_FlushOrdering ==
    [][/\ kr_pc \in {"start", "collect"} =>
             /\ elf_file' = elf_file
             /\ sections' = sections
             /\ shstrtab' = shstrtab
       /\ kr_pc = "update" =>
             /\ kr_pc' = "create"
             /\ Len(sections') = Len(elf_in.sections)
             /\ \A i \in 1..Len(sections) :
                   Rebuilt(i) => /\ sections[i].sh_type = "SHT_RELA"
                                 /\ sections[i].sh_info \in DOMAIN rela_entry_map
             /\ shstrtab' = elf_in.shstrtab
             /\ elf_file' = InMemory'
       /\ kr_pc = "create" =>
             /\ kr_pc' = "done"
             /\ elf_file.sections = sections
             /\ SubSeq(sections', 1, Len(sections)) = sections
             /\ Len(sections') = Len(sections) + Cardinality(DOMAIN klp_rela_entry_map)
             /\ elf_file' = InMemory'
       /\ kr_pc = "done" => InMemory' = elf_file]_vars

\* a run rebuilt .rela.text, flushed, added two sections and flushed again
C23_Witness ==
    /\ kr_pc = "done"
    /\ 1 \in DOMAIN rela_entry_map
    /\ sections[2 + 1] # elf_in.sections[2 + 1]
    /\ Len(sections) = Len(elf_in.sections) + 2
    /\ elf_file = InMemory

-----------------------------------------------------------------------------
(* the symbol string table, rebuilt by rename mode and by gen: the claims *)

\* the loop of RenameKlpSymbols or of FixupKlpSymbols is at a symbol
AtSymbol == (rn_pc = "loop" \/ gn_pc = "strip") /\ sym_cursor_ < Len(symtab)

NamesDone == rn_pc = "done" \/ gn_pc = "done"

\* the text from offset `from` of a buffer on is one name and its NUL, and
\* nothing more
OneNameFrom(buf, from) ==
    /\ from < Len(buf)
    /\ buf[Len(buf)] = NUL
    /\ \A p \in (from + 1)..(Len(buf) - 1) : buf[p] # NUL

\* C24: in rename mode and in gen's strip the buffer starts as one NUL; when
\* a symbol is taken up the string table is still the old one and the
\* symbol's st_name the old offset; a symbol that is renamed gets as st_name
\* the offset at which its own new name, ended by a NUL, is appended to the
\* buffer; the string table is replaced by the buffer only in the step of
\* the last symbol, the file is written only then, with the new table.
C24_StringTableOrdering ==
    [][/\ (rn_pc = "start" /\ rn_pc' = "loop") \/ (gn_pc = "makefile" /\ gn_pc' = "strip")
             => sym_name_buf' = <<NUL>>
       /\ AtSymbol =>
             /\ sym_name_buf[1] = NUL
             /\ strtab = elf_in.strtab
             /\ symtab[sym_cursor_ + 1].st_name = elf_in.symtab[sym_cursor_ + 1].st_name
             /\ sym_name_buf' # sym_name_buf =>
                   /\ symtab'[sym_cursor_ + 1].st_name = Len(sym_name_buf)
                   /\ SubSeq(sym_name_buf', 1, Len(sym_name_buf)) = sym_name_buf
                   /\ OneNameFrom(sym_name_buf', Len(sym_name_buf))
             /\ sym_cursor_ < SymCount(symtab) =>
                   strtab' = strtab /\ elf_file' = elf_file
             /\ NamesDone' =>
                   /\ sym_cursor_ = SymCount(symtab)
                   /\ strtab' = sym_name_buf'
                   /\ elf_file' = [symtab |-> symtab', strtab |-> strtab']
       /\ ~AtSymbol => strtab' = strtab /\ elf_file' = elf_file]_vars

\* a table of three symbols or more was rebuilt and written
C24_Witness ==
    /\ NamesDone
    /\ SymCount(symtab) >= 2
    /\ strtab # elf_in.strtab
    /\ elf_file = [symtab |-> symtab, strtab |-> sym_name_buf]
    /\ \A k \in 1..SymCount(symtab) :
          /\ strtab[symtab[k + 1].st_name] = NUL
          /\ k > 1 => symtab[k + 1].st_name > symtab[k].st_name

\* a loop over the symbols is about to run its body on the symbol at the cursor
SymbolLoop == rn_pc = "loop" \/ gn_pc \in {"extract", "strip"}

\* C27: a loop over a symbol table of n entries runs its body on the indices
\* 1..n-1 only, each once and in increasing order, never on index 0; for a
\* table of only the null symbol the body never runs; the loop ends behind
\* index n-1.
C27_SymbolIteration ==
    [][/\ SymbolLoop' =>
             /\ sym_cursor_' \in 1..(Len(symtab') - 1)
             /\ sym_cursor_' = IF SymbolLoop /\ gn_pc' = gn_pc
                               THEN sym_cursor_ + 1 ELSE 1
       /\ (SymbolLoop /\ (rn_pc' = "done" \/ gn_pc' \in {"wrapper", "done"}))
             => sym_cursor_ = Len(symtab) - 1]_vars

-----------------------------------------------------------------------------
(* diff: the claims *)

\* the run has ended, and both files were valid IR
DiffEnded ==
    /\ df_pc \in {"done", "failed"}
    /\ original_ll.valid
    /\ patched_ll.valid

IsNamed(f) == f.name # <<>>
InSpecialSection(f) ==
    StartsWith(f.section, kInitPrefix) \/ StartsWith(f.section, kExitPrefix)
OriginalsOf(f) ==
    {j \in 1..Len(original_ll.functions) : original_ll.functions[j].name = f.name}
MissingFromOriginal(f) == OriginalsOf(f) = {}
StructurallyDifferent(f) ==
    \E j \in OriginalsOf(f) : original_ll.functions[j].body.code # f.body.code
OnlyMoved(f) ==
    \E j \in OriginalsOf(f) :
        /\ original_ll.functions[j].body.code = f.body.code
        /\ original_ll.functions[j].body.dbg # f.body.dbg

\* the functions of the patched file, by what the spec classifies them as
InputFns == {patched_ll.functions[i] : i \in 1..Len(patched_ll.functions)}
LivepatchedSet ==
    {f.id : f \in {g \in InputFns :
        IsNamed(g) /\ ~InSpecialSection(g) /\ StructurallyDifferent(g)}}
NewSet ==
    {f.id : f \in {g \in InputFns :
        IsNamed(g) /\ ~InSpecialSection(g) /\ MissingFromOriginal(g)}}
DropSet == {f.id : f \in {g \in InputFns : InSpecialSection(g)}}
NamedDropSet == {f.id : f \in {g \in InputFns : IsNamed(g) /\ InSpecialSection(g)}}

OutputFns == {output_ir.functions[i] : i \in 1..Len(output_ir.functions)}

\* C9: a run on two valid files fails with NOTHING_TO_PATCH, exit code 7 and
\* no output IR written, exactly when no named function of the patched file
\* outside the .init*/.exit* sections is missing from the original or differs
\* from its original in its instructions; otherwise the output is written
C9_NothingToPatch ==
    DiffEnded =>
        /\ (df_pc = "failed" /\ exit_code = NOTHING_TO_PATCH)
            <=> (LivepatchedSet = {} /\ NewSet = {})
        /\ df_pc = "failed" <=> output_ir = NullModule

\* a run that ended with NOTHING_TO_PATCH although a special-section function
\* has changed and another function has other line numbers
C9_Witness ==
    /\ df_pc = "failed"
    /\ exit_code = NOTHING_TO_PATCH
    /\ output_ir = NullModule
    /\ \E f \in InputFns :
        IsNamed(f) /\ InSpecialSection(f) /\ StructurallyDifferent(f)
    /\ \E f \in InputFns : IsNamed(f) /\ ~InSpecialSection(f) /\ OnlyMoved(f)

\* every livepatched function of the output has the prefix and external linkage
LivepatchedMarked ==
    \A f \in OutputFns :
        f.id \in LivepatchedSet =>
            /\ StartsWith(f.name, kLivepatchPrefix)
            /\ f.linkage = "external"

\* C10, as stated: in the output IR every function that is neither livepatched
\* nor new has an empty body, every livepatched function has the __livepatch_
\* prefix and external linkage, and every function of a section beginning
\* .init or .exit is absent
C10_Externalization_AsStated ==
    df_pc = "done" =>
        /\ \A f \in OutputFns :
            f.id \notin (LivepatchedSet \cup NewSet) => f.body = NoBody
        /\ LivepatchedMarked
        /\ \A f \in OutputFns : f.id \notin DropSet

\* C10, amended: in the output IR every named function that is neither
\* livepatched nor new has an empty body, every livepatched function has the
\* __livepatch_ prefix and external linkage, and every named function of a
\* section beginning .init or .exit is absent; anonymous functions are as they
\* were in the patched file
C10_Externalization ==
    df_pc = "done" =>
        /\ \A f \in OutputFns :
            (IsNamed(f) /\ f.id \notin (LivepatchedSet \cup NewSet))
                => f.body = NoBody
        /\ LivepatchedMarked
        /\ \A f \in OutputFns : f.id \notin NamedDropSet
        /\ \A f \in InputFns : ~IsNamed(f) => f \in OutputFns

\* an output with a livepatched function, an unchanged function that lost its
\* body, and a special-section function that was dropped
C10_Witness ==
    /\ df_pc = "done"
    /\ \E f \in OutputFns : f.id \in LivepatchedSet
    /\ \E f \in InputFns :
        /\ IsNamed(f)
        /\ f.id \notin (LivepatchedSet \cup NewSet \cup DropSet)
        /\ f.body # NoBody
        /\ \E g \in OutputFns : g.id = f.id /\ g.body = NoBody
    /\ \E f \in InputFns :
        f.id \in NamedDropSet /\ \A g \in OutputFns : g.id # f.id

-----------------------------------------------------------------------------
\* the inline assembly the spec expects: the text of the patched file without
\* the fragments that match one of the two patterns
PrunedAsm(text) ==
    setModuleInlineAsm(regex_replace(regex_replace(text, kRegexCrc), kRegexInitcall))

\* the lines of a text that no match of either pattern takes a part of
RECURSIVE UnmatchedLines(_, _)
UnmatchedLines(lines, i) ==
    IF i > Len(lines) THEN <<>>
    ELSE IF MatchesAt(lines, i, kRegexCrc) \/ MatchesAt(lines, i, kRegexInitcall)
    THEN UnmatchedLines(lines, i + 4)
    ELSE <<lines[i]>> \o UnmatchedLines(lines, i + 1)

\* C11: the inline assembly of the output IR is the inline assembly of the
\* patched file with exactly the fragments matching the kcrctab/__crc pattern
\* or the initcall/__initcall pattern removed, and every line that is not part
\* of a match is there, in order
C11_InlineAsmPruning ==
    df_pc = "done" =>
        /\ output_ir.inline_asm = PrunedAsm(patched_ll.inline_asm)
        /\ \A i \in 1..Len(UnmatchedLines(patched_ll.inline_asm.lines, 1)) :
            \E j \in 1..Len(output_ir.inline_asm.lines) :
                output_ir.inline_asm.lines[j] =
                    UnmatchedLines(patched_ll.inline_asm.lines, 1)[i]

-----------------------------------------------------------------------------
(* diff: the names given to livepatched functions and to local globals *)

\* the source file name without the base path and the path separator after it
RelativeToBase(P, B) ==
    LET rest == SubStrFrom(P, Len(B))
    IN  IF rest # <<>> /\ rest[1] = "/" THEN Tail(rest) ELSE rest

InputFn(id) == CHOOSE f \in InputFns : f.id = id

\* the globals of the patched file whose names are not pruned
Surviving ==
    SelectSeq(patched_ll.globals, LAMBDA g :
        ~(\/ StartsWith(g.name, kGvarInit) \/ StartsWith(g.name, kGvarExit)
          \/ StartsWith(g.name, kGvarKstrtab) \/ StartsWith(g.name, kGvarKsymtab)))

\* global j of the output was renamed
GlobalRenamed(j) == output_ir.globals[j].name # Surviving[j].name

\* C26: when the base path is a prefix of the source file name, a livepatched
\* function f is named __livepatch_f:<suffix> and a renamed global g
\* klp.local.sym:g:<suffix>, where <suffix> is the source file name without
\* the base path and the path separator that follows it.
C26_BasePathStripping ==
    (df_pc = "done" /\ StartsWith(patched_ll.source_file, base_dir_)) =>
        /\ \A f \in OutputFns :
              f.id \in LivepatchedSet =>
                  f.name = kLivepatchPrefix \o InputFn(f.id).name \o <<":">>
                           \o RelativeToBase(patched_ll.source_file, base_dir_)
        /\ Len(output_ir.globals) = Len(Surviving)
        /\ \A j \in 1..Len(Surviving) :
              GlobalRenamed(j) =>
                  output_ir.globals[j].name =
                      kKLPLocalSym \o <<":">> \o Surviving[j].name \o <<":">>
                      \o RelativeToBase(original_ll.source_file, base_dir_)

\* a global of the patched file that DistillDiffGlobals is to turn into an
\* external declaration, by the conditions on the two input files
ToExternalize(g) ==
    /\ ~StartsWith(g.name, kGvarConst)
    /\ ~StartsWith(g.section, kDiscardSection)
    /\ ~(g.constant /\ g.initializer = "data")
    /\ ~g.jump_label
    /\ \E i \in 1..Len(original_ll.globals) : original_ll.globals[i].name = g.name

GlobalToRename(g) == ToExternalize(g) /\ g.dso_local /\ g.name # kFentry

\* C25: of the globals of the patched file that survive the pruning by name,
\* one loses its initializer and gets external linkage exactly when its name
\* does not begin with __const, it is not in the discard section, it is not
\* a constant with constant data, it is not a jump label and the original has
\* a global of that name; it is renamed klp.local.sym:<name>:<source file
\* relative to the base> exactly when it is also DSO-local and not
\* __fentry__; every other global is as it was; the stage does not fail.
C25_GlobalExternalization ==
    (df_pc = "done" /\ StartsWith(original_ll.source_file, base_dir_)) =>
        /\ Len(output_ir.globals) = Len(Surviving)
        /\ \A j \in 1..Len(Surviving) :
              LET g == Surviving[j]
                  out == output_ir.globals[j]
              IN  /\ ToExternalize(g) =>
                        out.initializer = "none" /\ out.linkage = "external"
                  /\ ~ToExternalize(g) => out = g
                  /\ GlobalToRename(g) =>
                        out.name = kKLPLocalSym \o <<":">> \o g.name \o <<":">>
                                   \o RelativeToBase(original_ll.source_file, base_dir_)
                  /\ ~GlobalToRename(g) => out.name = g.name
                  /\ \A field \in DOMAIN g \ {"name", "initializer", "linkage"} :
                        out[field] = g[field]

-----------------------------------------------------------------------------
(* gen: the claims *)

\* the names of the symbols of the object before the run, in the order of the
\* symbol table, the null symbol left out
GenSymbolNames ==
    [k \in 1..(Len(elf_in.symtab) - 1) |-> Name(elf_in.symtab, elf_in.strtab, k)]

BeginsWithPrefix(name) ==
    /\ Len(name) >= Len(kLivepatchPrefixElf)
    /\ SubSeq(name, 1, Len(kLivepatchPrefixElf)) = kLivepatchPrefixElf

PrefixAgain(name) ==
    \E p \in 2..Len(name) :
        /\ p + Len(kLivepatchPrefixElf) - 1 <= Len(name)
        /\ SubSeq(name, p, p + Len(kLivepatchPrefixElf) - 1) = kLivepatchPrefixElf

\* the text of a name up to its first colon, and the text after it
Colons(name) == {p \in 1..Len(name) : name[p] = ":"}
FirstColon(name) == CHOOSE p \in Colons(name) : \A q \in Colons(name) : p <= q
UpToColon(name) ==
    IF Colons(name) = {} THEN name ELSE SubSeq(name, 1, FirstColon(name) - 1)
AfterColon(name) ==
    IF Colons(name) = {} THEN <<>> ELSE SubSeq(name, FirstColon(name) + 1, Len(name))

\* <func> and <src-file> of a selected name
FuncOf(name) == UpToColon(SubSeq(name, Len(kLivepatchPrefixElf) + 1, Len(name)))
SrcFileOf(name) == AfterColon(SubSeq(name, Len(kLivepatchPrefixElf) + 1, Len(name)))

SelectedNames == SelectSeq(GenSymbolNames, BeginsWithPrefix)

ExpectedFuncNames ==
    [j \in 1..Len(SelectedNames) |->
        [func_name |-> FuncOf(SelectedNames[j]),
         src_file |-> SrcFileOf(SelectedNames[j])]]

GenExtracted == gn_pc \notin {"idle", "start", "extract"}

\* C12: once the first loop of gen has ended, the run has failed with
\* INVALID_KLP_PREFIX if a selected name holds __livepatch_ again at a later
\* position, it has failed with NOTHING_TO_PATCH if no symbol begins with
\* __livepatch_, and otherwise the functions found are exactly the selected
\* symbols, each with <func> the text between the prefix and the first colon
\* and <src-file> the text after that colon
C12_FunctionExtraction ==
    GenExtracted =>
        IF \E j \in 1..Len(SelectedNames) : PrefixAgain(SelectedNames[j])
        THEN gn_error = "INVALID_KLP_PREFIX"
        ELSE IF SelectedNames = <<>>
        THEN gn_error = "NOTHING_TO_PATCH"
        ELSE klp_func_names = ExpectedFuncNames

-----------------------------------------------------------------------------
\* the name of the k-th symbol before the run and in the file after it
OldName(k) == Name(elf_in.symtab, elf_in.strtab, k)
NewName(k) == Name(elf_file.symtab, elf_file.strtab, k)

\* the line of the linker script for a function
LdScriptLine(func) ==
    <<"l", "i", "v", "e", "p", "a", "t", "c", "h", "_">> \o func \o <<" ", "=", " ">>
        \o <<"_", "_", "l", "i", "v", "e", "p", "a", "t", "c", "h", "_">> \o func
        \o <<";">>

\* C13: after gen has succeeded the name of every symbol of the object is its
\* previous name truncated at the first colon, no name holds a colon, and
\* every __livepatch_<func>:<src-file> has become __livepatch_<func>, the
\* right-hand symbol of the line livepatch_<func> = __livepatch_<func>; of the
\* linker script
C13_SymbolStrip ==
    gn_pc = "done" =>
        /\ Len(elf_file.symtab) = Len(elf_in.symtab)
        /\ \A k \in 0..(Len(elf_in.symtab) - 1) :
            /\ NewName(k) = UpToColon(OldName(k))
            /\ Colons(NewName(k)) = {}
            /\ BeginsWithPrefix(OldName(k)) =>
                /\ NewName(k) = kLivepatchPrefixElf \o FuncOf(OldName(k))
                /\ livepatch_lds.exists
                /\ \E l \in 1..Len(livepatch_lds.lines) :
                    /\ livepatch_lds.lines[l] = LdScriptLine(FuncOf(OldName(k)))
                    /\ SubSeq(livepatch_lds.lines[l],
                              Len(livepatch_lds.lines[l]) - Len(NewName(k)),
                              Len(livepatch_lds.lines[l]) - 1) = NewName(k)

\* a successful run on an object with a livepatched function and with a symbol
\* that is not selected and has a colon in its name
C13_Witness ==
    /\ gn_pc = "done"
    /\ \E k \in 1..(Len(elf_in.symtab) - 1) :
        /\ OldName(k) = G_klp_foo
        /\ NewName(k) # OldName(k)
    /\ \E k \in 1..(Len(elf_in.symtab) - 1) :
        /\ ~BeginsWithPrefix(OldName(k))
        /\ Colons(OldName(k)) # {}
        /\ NewName(k) # OldName(k)

\* <src-file> with its extension replaced by .o
WithDotO(src_file) ==
    LET dots == {p \in 1..Len(src_file) : src_file[p] = "."}
    IN  (IF dots = {} THEN src_file
         ELSE SubSeq(src_file, 1, (CHOOSE p \in dots : \A q \in dots : q <= p) - 1))
        \o <<".", "o">>

\* the value the thin-archive index returns for a function, 0 without archive
IndexValue(name) ==
    IF ~thin_archive.given THEN 0
    ELSE QuerySymbol(tar, name.func_name, WithDotO(name.src_file))

\* the decimal text of an integer, with its sign
Decimal(n) == IF n < 0 THEN <<"-">> \o to_string_nat(0 - n) ELSE to_string_nat(n)

OldNameIs == <<"\t", "\t", ".", "o", "l", "d", "_", "n", "a", "m", "e", " ", "=", " ">>
NewFuncIs == <<"\t", "\t", ".", "n", "e", "w", "_", "f", "u", "n", "c", " ", "=", " ">>
OldSymposIs == <<"\t", "\t", ".", "o", "l", "d", "_", "s", "y", "m", "p", "o", "s", " ", "=", " ">>

\* the lines of livepatch.c that open a klp_func entry, in their order
EntryLines ==
    SelectSeq([i \in 1..Len(livepatch_c.lines) |-> i],
              LAMBDA i : StartsWith(livepatch_c.lines[i], OldNameIs))

\* livepatch.c is written to its end
WrapperWritten == gn_pc \in {"ldscript", "makefile", "strip", "done"}

\* C19: in the livepatch.c gen writes, the klp_func entries are those of the
\* livepatched functions, one each and in their order: old_name is <func>,
\* new_func is livepatch_<func>, and old_sympos is 0 without a thin archive
\* and otherwise the value the index returns for <func> and the object file
\* of <src-file>, -1 included.
C19_SymbolPosition ==
    WrapperWritten =>
        /\ Len(EntryLines) = Len(klp_func_names)
        /\ \A j \in 1..Len(EntryLines) :
              LET i == EntryLines[j]
                  name == klp_func_names[j]
              IN  /\ i + 2 <= Len(livepatch_c.lines)
                  /\ livepatch_c.lines[i] =
                        OldNameIs \o <<"\"">> \o name.func_name \o <<"\"", ",">>
                  /\ livepatch_c.lines[i + 1] =
                        NewFuncIs \o <<"l", "i", "v", "e", "p", "a", "t", "c", "h", "_">>
                                  \o name.func_name \o <<",">>
                  /\ livepatch_c.lines[i + 2] =
                        OldSymposIs \o Decimal(IndexValue(name)) \o <<",">>

-----------------------------------------------------------------------------
(* main: the claim *)

\* the subcommand of the command line, "" when there is none
Subcommand == IF mn_argv.args = <<>> THEN "" ELSE mn_argv.args[1]

StageNames == {"align", "diff", "fixup", "gen"}

\* C20: when main has returned: with no subcommand or with help the usage
\* text was printed and the value is 0; with a word that is no subcommand
\* the value is INVALID_COMMAND; for every subcommand the value is that of
\* the error code raised, returned by Run or thrown, and it is 0 exactly
\* when no error was raised.  The usage text is printed in no other case.
C20_DispatchExitCode ==
    mn_pc = "returned" =>
        /\ (mn_argv.args = <<>> \/ Subcommand = "help") =>
              (mn_out # <<>> /\ mn_ret = 0)
        /\ (mn_argv.args # <<>> /\ Subcommand \notin StageNames \cup {"help"}) =>
              (mn_ret = INVALID_COMMAND /\ mn_out = <<>>)
        /\ (mn_argv.args # <<>> /\ Subcommand \in StageNames) =>
              /\ mn_ret = mn_ec.value
              /\ mn_ret = 0 <=> mn_ec.how = "none"
              /\ mn_out = <<>>

\* main has returned the value of an error code a stage threw, that of one a
\* stage returned, and 0 for the usage text
C20_Witness ==
    /\ mn_pc = "returned"
    /\ \/ (Subcommand = "fixup" /\ mn_ec = Thrown(NO_RELA_SECTION) /\ mn_ret = 4100)
       \/ (Subcommand = "gen" /\ mn_ec = Returned(INVALID_KLP_PREFIX) /\ mn_ret = 4098)
       \/ (mn_argv.args = <<>> /\ mn_ret = 0
           /\ mn_out = UsageRun(X_llpatch) /\ mn_argv.exec = X_bin_llpatch)

GenEnded == gn_pc \in {"done", "failed"}

\* the first loop of gen fails on the object: no name is selected, or a
\* selected name holds the prefix again
ExtractionFails ==
    \/ SelectedNames = <<>>
    \/ \E j \in 1..Len(SelectedNames) : PrefixAgain(SelectedNames[j])

\* the wrapper, the linker script and the makefile are written in full
AllEmitted ==
    /\ livepatch_c.exists /\ livepatch_c.lines # <<>>
    /\ livepatch_lds.exists /\ livepatch_lds.lines # <<>>
    /\ makefile.exists /\ makefile.lines # <<>>

\* C29: the object on disk is as it was until gen has emitted the wrapper,
\* the linker script and the makefile without an error and has stripped the
\* symbols; a run in which the extraction of the functions fails or a file
\* of a template cannot be opened ends with the error of that failure, and
\* the object on disk, its symbol names with it, is as it was.
C29_UntouchedOnFailure ==
    gn_pc # "idle" =>
        /\ gn_pc # "done" => elf_file = elf_in
        /\ elf_file # elf_in =>
              /\ gn_pc = "done" /\ gn_error = "NO_ERROR"
              /\ AllEmitted
              /\ unopenable = {} /\ ~ExtractionFails
        /\ (GenEnded /\ (ExtractionFails \/ unopenable # {})) =>
              /\ gn_pc = "failed"
              /\ gn_error # "NO_ERROR"
              /\ ~ExtractionFails => gn_error = "FILE_OPEN_FAILED"
              /\ \A k \in 0..(Len(elf_in.symtab) - 1) : NewName(k) = OldName(k)

\* a run has written the wrapper and the linker script, has failed on the
\* template of the makefile, and the object still has its names with colons
C29_Witness ==
    /\ gn_pc = "failed"
    /\ gn_error = "FILE_OPEN_FAILED"
    /\ unopenable = {F_makefile_tmpl}
    /\ livepatch_c.lines # <<>> /\ livepatch_lds.lines # <<>>
    /\ elf_file = elf_in
    /\ \E k \in 1..(Len(elf_in.symtab) - 1) : Colons(NewName(k)) # {}

-----------------------------------------------------------------------------
(* The specifications, one for every stage *)

InitAlign == AlignInit /\ ThinIdle /\ ElfIdle /\ RenameIdle /\ RelaIdle /\ DiffIdle /\ GenIdle /\ MainIdle

SpecAlign == InitAlign /\ [][AlignNext]_vars

InitThin == ThinInit /\ AlignIdle /\ ElfIdle /\ RenameIdle /\ RelaIdle /\ DiffIdle /\ GenIdle /\ MainIdle

SpecThin == InitThin /\ [][ThinNext]_vars

InitRename == RenameInit /\ AlignIdle /\ ThinIdle /\ RelaIdle /\ DiffIdle /\ GenIdle /\ MainIdle

SpecRename == InitRename /\ [][RenameNext]_vars

InitRela == RelaInit /\ AlignIdle /\ ThinIdle /\ RenameIdle /\ DiffIdle /\ GenIdle /\ MainIdle

SpecRela == InitRela /\ [][RelaNext]_vars

InitDiff == DiffInit /\ AlignIdle /\ ThinIdle /\ ElfIdle /\ RenameIdle /\ RelaIdle /\ GenIdle /\ MainIdle

SpecDiff == InitDiff /\ [][DiffNext]_vars

InitGen == GenInit /\ AlignIdle /\ ThinIdle /\ RelaIdle /\ DiffIdle /\ MainIdle

SpecGen == InitGen /\ [][GenNext]_vars

InitNames == InitRename \/ InitGen

\* the two loops that rebuild the symbol string table
SpecNames == InitNames /\ [][RenameNext \/ GenNext]_vars

InitMain == MainInit /\ AlignIdle /\ ThinIdle /\ ElfIdle /\ RenameIdle /\ RelaIdle /\ DiffIdle /\ GenIdle

SpecMain == InitMain /\ [][MainNext]_vars

=============================================================================
